---- MODULE Spec2Model ----
(***************************************************************************)
(* State-machine model of the capacity derivation and memoization engine   *)
(* of token_price_analysis (src/database.py, TokenServiceDatabase).        *)
(*                                                                         *)
(* Tables are sets of rows.  The columns id, created_at and updated_at are *)
(* left out: no statement of the program reads them.  Python floats are    *)
(* modelled as exact rationals <<n, d>> in lowest terms with d > 0; on the *)
(* input sets used here the IEEE-754 evaluation of the integer-valued      *)
(* field (max_concurrent_requests) agrees with the exact evaluation.       *)
(***************************************************************************)
EXTENDS Integers, Sequences, FiniteSets, TLC

(***************************************************************************)
(* Rational arithmetic standing for Python float arithmetic.               *)
(***************************************************************************)
Abs(n) == IF n < 0 THEN -n ELSE n

RECURSIVE Gcd(_, _)
Gcd(a, b) == IF b = 0 THEN a ELSE Gcd(b, a % b)

\* lowest terms, positive denominator
Rat(n, d) ==
    LET s == IF d < 0 THEN -1 ELSE 1
        g == Gcd(Abs(n), Abs(d))
    IN  <<(s * n) \div g, (s * d) \div g>>

RInt(n) == <<n, 1>>
RMul(x, y) == Rat(x[1] * y[1], x[2] * y[2])
RDiv(x, y) == Rat(x[1] * y[2], x[2] * y[1])
RAdd(x, y) == Rat(x[1] * y[2] + y[1] * x[2], x[2] * y[2])
RSub(x, y) == Rat(x[1] * y[2] - y[1] * x[2], x[2] * y[2])
RLeq(x, y) == x[1] * y[2] <= y[1] * x[2]
RMax(x, y) == IF RLeq(x, y) THEN y ELSE x
RMin(x, y) == IF RLeq(x, y) THEN x ELSE y
\* variant: rounding to the nearest integer
PyRound(x) ==
    IF x[1] >= 0 THEN (2 * x[1] + x[2]) \div (2 * x[2])
    ELSE -((2 * (-x[1]) + x[2]) \div (2 * x[2]))
\* Python int(): truncation toward zero
PyInt(x) == IF x[1] >= 0 THEN x[1] \div x[2] ELSE -((-x[1]) \div x[2])

(***************************************************************************)
(* Outcomes of a call.                                                     *)
(***************************************************************************)
None == [tag |-> "None"]
ZeroDivisionError == [tag |-> "ZeroDivisionError"]
IntegrityError == [tag |-> "IntegrityError"]
TypeError == [tag |-> "TypeError"]
AttributeError == [tag |-> "AttributeError"]

\* cursor.fetchone(): a matching row, or None when there is none
fetchone(rows) == IF rows = {} THEN None ELSE CHOOSE r \in rows : TRUE

(***************************************************************************)
(* Input domains.  Names and figures are those of init_default_data.       *)
(***************************************************************************)
HardwareNames == {"RTX4090x4"}
\* (input_tokens, output_tokens) profiles of spec scenarios A and B
TokenProfiles == {<<1000, 500>>, <<50000, 10000>>}

Perf(m, h, c, t) ==
    [model_key |-> m, hardware_name |-> h, max_concurrent |-> c,
     memory_usage_gb |-> 60, avg_response_time_ms |-> RInt(t)]

\* the default benchmarks of RTX4090x4 and a re-benchmark of qwen2-7b
PerfInputs ==
    { Perf("qwen2-7b", "RTX4090x4", 250, 4400),
      Perf("qwen2-7b", "RTX4090x4", 200, 5500),
      Perf("moonshotai-kimi-k2-thinking", "RTX4090x4", 200, 5500) }

Sla(l, a, r) == [level |-> l, availability_target |-> a, max_concurrent_ratio |-> r]

\* the default levels basic and standard, and standard redefined
SlaInputs ==
    { Sla("basic", Rat(99, 100), Rat(1, 1)),
      Sla("standard", Rat(995, 1000), Rat(8, 10)),
      Sla("standard", Rat(999, 1000), Rat(6, 10)) }

\* the keys looked up
Keys ==
    { [hardware_name |-> h, model_key |-> "qwen2-7b", sla_level |-> l,
       input_tokens |-> t[1], output_tokens |-> t[2]] :
      h \in HardwareNames, l \in {"basic", "standard"}, t \in TokenProfiles }

Hardware(n, g, c, mcr, buy, rent, w, maint) ==
    [name |-> n, gpu_type |-> g, gpu_count |-> c, gpu_memory_gb |-> 24,
     cpu_cores |-> 32, memory_gb |-> 128, storage_gb |-> 2000,
     prefill_tps |-> 16000, decode_tps |-> 400, max_concurrent_requests |-> mcr,
     purchase_cost_yuan |-> buy, monthly_rental_cost_yuan |-> rent,
     power_consumption_w |-> w, monthly_maintenance_cost_yuan |-> maint,
     depreciation_years |-> 5]

\* the default RTX4090x4 profile, a re-registration of it at other prices,
\* and the default A100x8 profile
HardwareInputs ==
    { Hardware("RTX4090x4", "RTX4090", 4, 200, 80000, 8000, 1500, 500),
      Hardware("RTX4090x4", "RTX4090", 8, 400, 90000, 9000, 1600, 600),
      Hardware("A100x8", "A100", 8, 400, 320000, 32000, 3000, 2000) }

Pricing(k, cat, pin, pout) ==
    [model_key |-> k, model_name |-> "Qwen/Qwen2-7B", category |-> cat,
     input_price_per_m |-> pin, output_price_per_m |-> pout,
     description |-> "", provider |-> "Qwen", parameter_size |-> "7B",
     model_type |-> "Language"]

\* two price points of one model, a record of a category the table rejects,
\* and one price point of a second model
PricingInputs ==
    { Pricing("qwen2-7b", "free", 0, 0),
      Pricing("qwen2-7b", "paid", 1, 2),
      Pricing("qwen2-7b", "premium", 1, 2),
      Pricing("kimi-k2", "paid", 4, 16) }

\* cap on the rows of model_pricing_history
MaxHistory == 2

\* reference data and keys of the store specification
StorePerfInputs == { Perf("qwen2-7b", "RTX4090x4", 250, 4400) }
StoreSlaInputs == { Sla("standard", Rat(995, 1000), Rat(8, 10)) }
\* token counts no request can have
InvalidTokenProfiles == { <<0, 500>>, <<1000, -500>> }
StoreKeys ==
    { k \in Keys : k.sla_level = "standard" }
    \cup { [hardware_name |-> "RTX4090x4", model_key |-> "qwen2-7b", sla_level |-> "standard",
            input_tokens |-> t[1], output_tokens |-> t[2]] : t \in InvalidTokenProfiles }

\* bounds of the derivation specification
MaxBenchmark == 5
MaxTokenUnits == 2

\* benchmarks of 0..MaxBenchmark concurrent requests, the default benchmark,
\* and a benchmark without a response time
DerivePerfInputs ==
    { Perf("qwen2-7b", "RTX4090x4", c, 4400) : c \in 0..MaxBenchmark }
    \cup { Perf("qwen2-7b", "RTX4090x4", 200, 5500),
           Perf("qwen2-7b", "RTX4090x4", 200, 0) }

\* the four default service levels under one name, a level entitled to the
\* whole benchmark, and a level whose ratio lies outside (0,1]
DeriveSlaInputs ==
    { Sla("standard", Rat(1, 1), Rat(1, 1)),
      Sla("standard", Rat(99, 100), Rat(1, 1)),
      Sla("standard", Rat(995, 1000), Rat(8, 10)),
      Sla("standard", Rat(999, 1000), Rat(6, 10)),
      Sla("standard", Rat(9999, 10000), Rat(4, 10)),
      Sla("standard", Rat(1, 1), Rat(3, 2)) }

DeriveKeys ==
    { [hardware_name |-> "RTX4090x4", model_key |-> "qwen2-7b", sla_level |-> "standard",
       input_tokens |-> i, output_tokens |-> o] :
      i \in {1000} \cup {25000 * u : u \in 1..MaxTokenUnits}, o \in {500, 10000} }

\* reference data and keys of the concurrent specifications
ConcPerfInputs ==
    { Perf("qwen2-7b", "RTX4090x4", 250, 4400),
      Perf("qwen2-7b", "RTX4090x4", 200, 5500) }
ConcSlaInputs == { Sla("standard", Rat(995, 1000), Rat(8, 10)) }
ConcKeys == { k \in Keys : k.sla_level = "standard" /\ k.input_tokens = 50000 }
RaceKeys == { k \in Keys : k.sla_level = "standard" }

\* concurrent callers sharing one database file
NumProcs == 2
Callers == 1..NumProcs
\* the process that registers reference data while callers are under way
Registrar == CHOOSE p \in {0} : TRUE
Procs == {Registrar} \cup Callers
\* the single caller of the sequential specifications
Caller == CHOOSE p \in Callers : \A q \in Callers : p <= q

VARIABLES
    hardware_configs,              \* table hardware_configs
    model_hardware_performance,    \* table model_hardware_performance
    sla_levels,                    \* table sla_levels
    hardware_model_sla_capacity,   \* table hardware_model_sla_capacity
    model_pricing,                 \* table model_pricing
    model_pricing_history,         \* table model_pricing_history, in id order
    pc,                            \* per caller: position inside calculate_hardware_capacity
    frame,                         \* per caller: locals of the call in progress
    ret,                           \* per caller: the last operation, what it returned,
                                   \* and the caller's latest capacity lookup
    served,                        \* per key: the first result ever returned for it
    calculator                     \* the TokenServiceCalculator's four settings

tables == <<hardware_configs, model_hardware_performance, sla_levels,
            hardware_model_sla_capacity, model_pricing, model_pricing_history>>
vars == <<hardware_configs, model_hardware_performance, sla_levels,
          hardware_model_sla_capacity, model_pricing, model_pricing_history,
          pc, frame, ret, served, calculator>>

NoFrame == [tag |-> "NoFrame"]
NoLookup == [tag |-> "NoLookup"]
NoCall == [op |-> "none", val |-> None, lookup |-> NoLookup]

\* TokenServiceCalculator.__init__
NewCalculator ==
    [model_pricing |-> None, service_profile |-> None,
     hardware |-> None, service_params |-> None]

\* state after TokenServiceDatabase(): init_database creates empty tables
Init ==
    /\ hardware_configs = {}
    /\ model_hardware_performance = {}
    /\ sla_levels = {}
    /\ hardware_model_sla_capacity = {}
    /\ model_pricing = {}
    /\ model_pricing_history = <<>>
    /\ pc = [p \in Procs |-> "idle"]
    /\ frame = [p \in Procs |-> NoFrame]
    /\ ret = [p \in Procs |-> NoCall]
    /\ served = {}
    /\ calculator = NewCalculator

(***************************************************************************)
(* SQL statements of the capacity path.                                    *)
(***************************************************************************)
\* variant: the WHERE clause of the token-unaware schema revision
select_capacity_ignoring_tokens(capacity_table, key) ==
    { r \in capacity_table :
        /\ r.hardware_name = key.hardware_name
        /\ r.model_key = key.model_key
        /\ r.sla_level = key.sla_level }

\* SELECT ... FROM hardware_model_sla_capacity WHERE <the five key columns>
select_capacity(capacity_table, key) ==
    { r \in capacity_table :
        /\ r.hardware_name = key.hardware_name
        /\ r.model_key = key.model_key
        /\ r.sla_level = key.sla_level
        /\ r.input_tokens = key.input_tokens
        /\ r.output_tokens = key.output_tokens }

\* the dict built from the cached row
cached_result(row) ==
    [max_concurrent_requests |-> row.max_concurrent_requests,
     effective_qps |-> row.effective_qps,
     memory_usage_percent |-> row.memory_usage_percent,
     cpu_usage_percent |-> row.cpu_usage_percent]

\* SELECT max_concurrent, avg_response_time_ms FROM model_hardware_performance
select_perf(perf_table, hardware_name, model_key) ==
    { r \in perf_table : r.hardware_name = hardware_name /\ r.model_key = model_key }

\* SELECT max_concurrent_ratio, availability_target FROM sla_levels
select_sla(sla_table, sla_level) ==
    { r \in sla_table : r.level = sla_level }

\* variant: min(1.0, ...) in place of max(1.0, ...)
derive_capacity_min(perf, sla, input_tokens, output_tokens) ==
    LET max_concurrent == perf.max_concurrent
        baseline_response_time == perf.avg_response_time_ms
        concurrent_ratio == sla.max_concurrent_ratio
        availability == sla.availability_target
        token_ratio == RDiv(RInt(input_tokens + output_tokens), RInt(10000))
        adjusted_concurrent ==
            PyInt(RDiv(RInt(max_concurrent),
                       RMin(RInt(1), RMul(token_ratio, Rat(1, 2)))))
        effective_concurrent ==
            PyInt(RMul(RMul(RInt(adjusted_concurrent), concurrent_ratio), availability))
    IN  IF baseline_response_time[1] = 0 THEN ZeroDivisionError
        ELSE IF max_concurrent = 0 THEN ZeroDivisionError
        ELSE
          [max_concurrent_requests |-> effective_concurrent,
           effective_qps |->
               RMul(RDiv(RInt(effective_concurrent),
                         RDiv(baseline_response_time, RInt(1000))), availability),
           memory_usage_percent |->
               RMul(RDiv(RInt(effective_concurrent), RInt(max_concurrent)), RInt(100)),
           cpu_usage_percent |->
               RMin(RInt(95),
                    RMul(RMul(RDiv(RInt(effective_concurrent), RInt(max_concurrent)),
                              availability), RInt(100)))]

\* variant: the benchmark multiplied by the token factor instead of divided
derive_capacity_multiplying(perf, sla, input_tokens, output_tokens) ==
    LET max_concurrent == perf.max_concurrent
        baseline_response_time == perf.avg_response_time_ms
        concurrent_ratio == sla.max_concurrent_ratio
        availability == sla.availability_target
        token_ratio == RDiv(RInt(input_tokens + output_tokens), RInt(10000))
        adjusted_concurrent ==
            PyInt(RMul(RInt(max_concurrent),
                       RMax(RInt(1), RMul(token_ratio, Rat(1, 2)))))
        effective_concurrent ==
            PyInt(RMul(RMul(RInt(adjusted_concurrent), concurrent_ratio), availability))
    IN  IF baseline_response_time[1] = 0 THEN ZeroDivisionError
        ELSE IF max_concurrent = 0 THEN ZeroDivisionError
        ELSE
          [max_concurrent_requests |-> effective_concurrent,
           effective_qps |->
               RMul(RDiv(RInt(effective_concurrent),
                         RDiv(baseline_response_time, RInt(1000))), availability),
           memory_usage_percent |->
               RMul(RDiv(RInt(effective_concurrent), RInt(max_concurrent)), RInt(100)),
           cpu_usage_percent |->
               RMin(RInt(95),
                    RMul(RMul(RDiv(RInt(effective_concurrent), RInt(max_concurrent)),
                              availability), RInt(100)))]

\* the arithmetic of _calculate_new_capacity once both rows are fetched
\* variant: the token load multiplies the benchmark instead of dividing it
adjusted_concurrent_scaled_up(max_concurrent, input_tokens, output_tokens) ==
    PyInt(RMul(RInt(max_concurrent),
               RMax(RInt(1),
                    RMul(RDiv(RInt(input_tokens + output_tokens), RInt(10000)),
                         Rat(1, 2)))))

\* variant: the token load is not halved before it is compared with 1
adjusted_concurrent_unhalved(max_concurrent, input_tokens, output_tokens) ==
    PyInt(RDiv(RInt(max_concurrent),
               RMax(RInt(1), RDiv(RInt(input_tokens + output_tokens), RInt(10000)))))

\* lines 308-311: token_ratio = (input_tokens + output_tokens) / 10000
\*                int(max_concurrent / max(1.0, token_ratio * 0.5))
adjusted_concurrent(max_concurrent, input_tokens, output_tokens) ==
    PyInt(RDiv(RInt(max_concurrent),
               RMax(RInt(1),
                    RMul(RDiv(RInt(input_tokens + output_tokens), RInt(10000)),
                         Rat(1, 2)))))

\* variant: the processor figure is not capped
cpu_usage_percent_uncapped(effective_concurrent, max_concurrent, availability) ==
    RMul(RMul(RDiv(RInt(effective_concurrent), RInt(max_concurrent)), availability),
         RInt(100))

\* line 323: min(95, (effective_concurrent / max_concurrent) * availability * 100)
cpu_usage_percent(effective_concurrent, max_concurrent, availability) ==
    RMin(RInt(95),
         RMul(RMul(RDiv(RInt(effective_concurrent), RInt(max_concurrent)), availability),
              RInt(100)))

derive_capacity(perf, sla, input_tokens, output_tokens) ==
    LET max_concurrent == perf.max_concurrent
        baseline_response_time == perf.avg_response_time_ms
        concurrent_ratio == sla.max_concurrent_ratio
        availability == sla.availability_target
        effective_concurrent ==
            PyInt(RMul(RMul(RInt(adjusted_concurrent(max_concurrent, input_tokens,
                                                     output_tokens)),
                            concurrent_ratio), availability))
    IN  IF baseline_response_time[1] = 0 THEN ZeroDivisionError
        ELSE IF max_concurrent = 0 THEN ZeroDivisionError
        ELSE
          [max_concurrent_requests |-> effective_concurrent,
           effective_qps |->
               RMul(RDiv(RInt(effective_concurrent),
                         RDiv(baseline_response_time, RInt(1000))), availability),
           memory_usage_percent |->
               RMul(RDiv(RInt(effective_concurrent), RInt(max_concurrent)), RInt(100)),
           cpu_usage_percent |->
               cpu_usage_percent(effective_concurrent, max_concurrent, availability)]

\* variant: an unknown service level is given the whole benchmark
_calculate_new_capacity_default_sla(perf_table, sla_table, key) ==
    LET perf == fetchone(select_perf(perf_table, key.hardware_name, key.model_key))
        sla == fetchone(select_sla(sla_table, key.sla_level))
    IN  IF perf = None THEN None
        ELSE IF sla = None
             THEN derive_capacity(perf, [level |-> key.sla_level,
                                         availability_target |-> RInt(1),
                                         max_concurrent_ratio |-> RInt(1)],
                                  key.input_tokens, key.output_tokens)
        ELSE derive_capacity(perf, sla, key.input_tokens, key.output_tokens)

_calculate_new_capacity(perf_table, sla_table, key) ==
    LET perf == fetchone(select_perf(perf_table, key.hardware_name, key.model_key))
        sla == fetchone(select_sla(sla_table, key.sla_level))
    IN  IF perf = None THEN None
        ELSE IF sla = None THEN None
        ELSE derive_capacity(perf, sla, key.input_tokens, key.output_tokens)

\* variant: input_tokens and output_tokens bound in the wrong order
_cache_capacity_swapped_tokens(capacity_table, key, capacity) ==
    (capacity_table \ select_capacity(capacity_table, key)) \cup
    { [hardware_name |-> key.hardware_name, model_key |-> key.model_key,
       sla_level |-> key.sla_level, input_tokens |-> key.output_tokens,
       output_tokens |-> key.input_tokens,
       max_concurrent_requests |-> capacity.max_concurrent_requests,
       effective_qps |-> capacity.effective_qps,
       memory_usage_percent |-> capacity.memory_usage_percent,
       cpu_usage_percent |-> capacity.cpu_usage_percent] }

\* variant: a plain INSERT into a table without the UNIQUE constraint
_cache_capacity_insert_only(capacity_table, key, capacity) ==
    capacity_table \cup
    { [hardware_name |-> key.hardware_name, model_key |-> key.model_key,
       sla_level |-> key.sla_level, input_tokens |-> key.input_tokens,
       output_tokens |-> key.output_tokens,
       max_concurrent_requests |-> capacity.max_concurrent_requests,
       effective_qps |-> capacity.effective_qps,
       memory_usage_percent |-> capacity.memory_usage_percent,
       cpu_usage_percent |-> capacity.cpu_usage_percent] }

\* variant: memory_usage_percent and cpu_usage_percent bound in the wrong order
_cache_capacity_swapped_percent(capacity_table, key, capacity) ==
    (capacity_table \ select_capacity(capacity_table, key)) \cup
    { [hardware_name |-> key.hardware_name, model_key |-> key.model_key,
       sla_level |-> key.sla_level, input_tokens |-> key.input_tokens,
       output_tokens |-> key.output_tokens,
       max_concurrent_requests |-> capacity.max_concurrent_requests,
       effective_qps |-> capacity.effective_qps,
       memory_usage_percent |-> capacity.cpu_usage_percent,
       cpu_usage_percent |-> capacity.memory_usage_percent] }

\* variant: INSERT OR IGNORE, the row of the first writer stays
_cache_capacity_insert_or_ignore(capacity_table, key, capacity) ==
    IF select_capacity(capacity_table, key) # {} THEN capacity_table
    ELSE capacity_table \cup
         { [hardware_name |-> key.hardware_name, model_key |-> key.model_key,
            sla_level |-> key.sla_level, input_tokens |-> key.input_tokens,
            output_tokens |-> key.output_tokens,
            max_concurrent_requests |-> capacity.max_concurrent_requests,
            effective_qps |-> capacity.effective_qps,
            memory_usage_percent |-> capacity.memory_usage_percent,
            cpu_usage_percent |-> capacity.cpu_usage_percent] }

\* INSERT OR REPLACE under UNIQUE(hardware_name, model_key, sla_level,
\* input_tokens, output_tokens): conflicting rows go, the new row comes
_cache_capacity(capacity_table, key, capacity) ==
    (capacity_table \ select_capacity(capacity_table, key)) \cup
    { [hardware_name |-> key.hardware_name, model_key |-> key.model_key,
       sla_level |-> key.sla_level, input_tokens |-> key.input_tokens,
       output_tokens |-> key.output_tokens,
       max_concurrent_requests |-> capacity.max_concurrent_requests,
       effective_qps |-> capacity.effective_qps,
       memory_usage_percent |-> capacity.memory_usage_percent,
       cpu_usage_percent |-> capacity.cpu_usage_percent] }

IsResult(v) == v # None /\ v # ZeroDivisionError /\ v # IntegrityError

\* get_hardware_configs: the fifteen selected columns of every row
get_hardware_configs(config_table) ==
    { [name |-> r.name, gpu_type |-> r.gpu_type, gpu_count |-> r.gpu_count,
       gpu_memory_gb |-> r.gpu_memory_gb, cpu_cores |-> r.cpu_cores,
       memory_gb |-> r.memory_gb, storage_gb |-> r.storage_gb,
       prefill_tps |-> r.prefill_tps, decode_tps |-> r.decode_tps,
       max_concurrent_requests |-> r.max_concurrent_requests,
       purchase_cost_yuan |-> r.purchase_cost_yuan,
       monthly_rental_cost_yuan |-> r.monthly_rental_cost_yuan,
       power_consumption_w |-> r.power_consumption_w,
       monthly_maintenance_cost_yuan |-> r.monthly_maintenance_cost_yuan,
       depreciation_years |-> r.depreciation_years] : r \in config_table }

\* what the caller observes when calculate_hardware_capacity(key) ends with v;
\* hit tells whether v was read from the cache
returned(p, key, v, hit) ==
    /\ ret' = [ret EXCEPT ![p] =
                 [op |-> "calculate_hardware_capacity", val |-> v,
                  lookup |-> [key |-> key, val |-> v, hit |-> hit]]]
    /\ served' = IF IsResult(v) /\ ~(\E s \in served : s.key = key)
                 THEN served \cup {[key |-> key, val |-> v]}
                 ELSE served
    /\ UNCHANGED calculator

\* what the caller observes when a registration ends with v
registered(p, op, v) ==
    /\ ret' = [ret EXCEPT ![p] = [op |-> op, val |-> v, lookup |-> ret[p].lookup]]
    /\ UNCHANGED <<served, calculator>>

(***************************************************************************)
(* Registrations: each is one INSERT OR REPLACE statement and a commit.    *)
(***************************************************************************)
\* variant: a re-registration keeps the prices of the record it replaces
add_hardware_config_keeping_prices(p, hardware) ==
    /\ pc[p] = "idle"
    /\ hardware_configs' =
           { r \in hardware_configs : r.name # hardware.name }
           \cup { [hardware EXCEPT
                      !.purchase_cost_yuan =
                          IF \E r \in hardware_configs : r.name = hardware.name
                          THEN (CHOOSE r \in hardware_configs :
                                    r.name = hardware.name).purchase_cost_yuan
                          ELSE @] }
    /\ registered(p, "add_hardware_config", None)
    /\ UNCHANGED <<model_hardware_performance, sla_levels, hardware_model_sla_capacity,
                   model_pricing, model_pricing_history, pc, frame>>

\* hardware_configs has PRIMARY KEY name
add_hardware_config(p, hardware) ==
    /\ pc[p] = "idle"
    /\ hardware_configs' =
           { r \in hardware_configs : r.name # hardware.name } \cup {hardware}
    /\ registered(p, "add_hardware_config", None)
    /\ UNCHANGED <<model_hardware_performance, sla_levels, hardware_model_sla_capacity,
                   model_pricing, model_pricing_history, pc, frame>>

\* variant: a re-registration drops the cached rows derived from the pair
add_model_hardware_performance_invalidating(p, performance) ==
    /\ pc[p] = "idle"
    /\ model_hardware_performance' =
           (model_hardware_performance \
              select_perf(model_hardware_performance,
                          performance.hardware_name, performance.model_key))
           \cup {performance}
    /\ hardware_model_sla_capacity' =
           { r \in hardware_model_sla_capacity :
               ~(/\ r.hardware_name = performance.hardware_name
                 /\ r.model_key = performance.model_key) }
    /\ registered(p, "add_model_hardware_performance", None)
    /\ UNCHANGED <<hardware_configs, sla_levels,
                   model_pricing, model_pricing_history, pc, frame>>

\* model_hardware_performance has UNIQUE(model_key, hardware_name)
add_model_hardware_performance(p, performance) ==
    /\ pc[p] = "idle"
    /\ model_hardware_performance' =
           (model_hardware_performance \
              select_perf(model_hardware_performance,
                          performance.hardware_name, performance.model_key))
           \cup {performance}
    /\ registered(p, "add_model_hardware_performance", None)
    /\ UNCHANGED <<hardware_configs, sla_levels, hardware_model_sla_capacity,
                   model_pricing, model_pricing_history, pc, frame>>

\* sla_levels has PRIMARY KEY level
add_sla_level(p, sla) ==
    /\ pc[p] = "idle"
    /\ sla_levels' = (sla_levels \ select_sla(sla_levels, sla.level)) \cup {sla}
    /\ registered(p, "add_sla_level", None)
    /\ UNCHANGED <<hardware_configs, model_hardware_performance,
                   hardware_model_sla_capacity, model_pricing, model_pricing_history,
                   pc, frame>>

\* CHECK (category IN ('free', 'paid', 'fine_tune')) of model_pricing
Categories == {"free", "paid", "fine_tune"}

\* variant: the history row of a rejected call is committed
add_model_pricing_keeping_history(p, pricing) ==
    /\ pc[p] = "idle"
    /\ Len(model_pricing_history) < MaxHistory
    /\ LET existing == fetchone({ r \in model_pricing : r.model_key = pricing.model_key })
           history == IF existing # None
                      THEN Append(model_pricing_history, existing)
                      ELSE model_pricing_history
       IN  IF pricing.category \notin Categories
           THEN /\ model_pricing_history' = history
                /\ UNCHANGED model_pricing
                /\ registered(p, "add_model_pricing", IntegrityError)
           ELSE /\ model_pricing_history' = history
                /\ model_pricing' =
                       { r \in model_pricing : r.model_key # pricing.model_key }
                       \cup {pricing}
                /\ registered(p, "add_model_pricing", None)
    /\ UNCHANGED <<hardware_configs, model_hardware_performance, sla_levels,
                   hardware_model_sla_capacity, pc, frame>>

\* variant: the history receives the new record instead of the superseded one
add_model_pricing_archiving_new(p, pricing) ==
    /\ pc[p] = "idle"
    /\ Len(model_pricing_history) < MaxHistory
    /\ LET existing == fetchone({ r \in model_pricing : r.model_key = pricing.model_key })
           history == IF existing # None
                      THEN Append(model_pricing_history, pricing)
                      ELSE model_pricing_history
       IN  IF pricing.category \notin Categories
           THEN /\ UNCHANGED <<model_pricing, model_pricing_history>>
                /\ registered(p, "add_model_pricing", IntegrityError)
           ELSE /\ model_pricing_history' = history
                /\ model_pricing' =
                       { r \in model_pricing : r.model_key # pricing.model_key }
                       \cup {pricing}
                /\ registered(p, "add_model_pricing", None)
    /\ UNCHANGED <<hardware_configs, model_hardware_performance, sla_levels,
                   hardware_model_sla_capacity, pc, frame>>

\* The superseded record goes to the history, then the current record is
\* replaced (PRIMARY KEY model_key).  Both statements run in one transaction
\* of the connection's with-block: a failing statement rolls both back.
add_model_pricing(p, pricing) ==
    /\ pc[p] = "idle"
    /\ Len(model_pricing_history) < MaxHistory
    /\ LET existing == fetchone({ r \in model_pricing : r.model_key = pricing.model_key })
           history == IF existing # None
                      THEN Append(model_pricing_history, existing)
                      ELSE model_pricing_history
       IN  IF pricing.category \notin Categories
           THEN /\ UNCHANGED <<model_pricing, model_pricing_history>>
                /\ registered(p, "add_model_pricing", IntegrityError)
           ELSE /\ model_pricing_history' = history
                /\ model_pricing' =
                       { r \in model_pricing : r.model_key # pricing.model_key }
                       \cup {pricing}
                /\ registered(p, "add_model_pricing", None)
    /\ UNCHANGED <<hardware_configs, model_hardware_performance, sla_levels,
                   hardware_model_sla_capacity, pc, frame>>

(***************************************************************************)
(* calculate_hardware_capacity as one uninterrupted call.                  *)
(***************************************************************************)
ZeroFilled ==
    [max_concurrent_requests |-> 0, effective_qps |-> RInt(0),
     memory_usage_percent |-> RInt(0), cpu_usage_percent |-> RInt(0)]

\* variant: the cache is never consulted, every call derives and stores
calculate_hardware_capacity_recompute(p, key) ==
    /\ pc[p] = "idle"
    /\ LET capacity == _calculate_new_capacity(model_hardware_performance, sla_levels, key)
       IN  /\ hardware_model_sla_capacity' =
                  IF IsResult(capacity)
                  THEN _cache_capacity(hardware_model_sla_capacity, key, capacity)
                  ELSE hardware_model_sla_capacity
           /\ returned(p, key, capacity, FALSE)
    /\ UNCHANGED <<hardware_configs, model_hardware_performance, sla_levels,
                   model_pricing, model_pricing_history, pc, frame>>

\* variant: a NotFound outcome is remembered as a zero-filled row
calculate_hardware_capacity_caches_notfound(p, key) ==
    /\ pc[p] = "idle"
    /\ LET cached == fetchone(select_capacity(hardware_model_sla_capacity, key))
           capacity == _calculate_new_capacity(model_hardware_performance, sla_levels, key)
       IN  IF cached # None
           THEN /\ returned(p, key, IF cached_result(cached) = ZeroFilled
                                    THEN None ELSE cached_result(cached), TRUE)
                /\ UNCHANGED hardware_model_sla_capacity
           ELSE /\ hardware_model_sla_capacity' =
                       _cache_capacity(hardware_model_sla_capacity, key,
                                       IF IsResult(capacity) THEN capacity ELSE ZeroFilled)
                /\ returned(p, key, capacity, FALSE)
    /\ UNCHANGED <<hardware_configs, model_hardware_performance, sla_levels,
                   model_pricing, model_pricing_history, pc, frame>>

calculate_hardware_capacity(p, key) ==
    /\ pc[p] = "idle"
    /\ LET cached == fetchone(select_capacity(hardware_model_sla_capacity, key))
           capacity == _calculate_new_capacity(model_hardware_performance, sla_levels, key)
       IN  IF cached # None
           THEN /\ returned(p, key, cached_result(cached), TRUE)
                /\ UNCHANGED hardware_model_sla_capacity
           ELSE /\ hardware_model_sla_capacity' =
                       IF IsResult(capacity)
                       THEN _cache_capacity(hardware_model_sla_capacity, key, capacity)
                       ELSE hardware_model_sla_capacity
                /\ returned(p, key, capacity, FALSE)
    /\ UNCHANGED <<hardware_configs, model_hardware_performance, sla_levels,
                   model_pricing, model_pricing_history, pc, frame>>

(***************************************************************************)
(* calculate_hardware_capacity statement by statement: no lock and no      *)
(* transaction spans its statements, so the statements of callers that     *)
(* share the database file interleave.                                     *)
(***************************************************************************)
\* the cache SELECT; a hit returns at once
lookup_cache(p, key) ==
    /\ pc[p] = "idle"
    /\ LET cached == fetchone(select_capacity(hardware_model_sla_capacity, key))
       IN  IF cached # None
           THEN /\ returned(p, key, cached_result(cached), TRUE)
                /\ UNCHANGED <<pc, frame>>
           ELSE /\ pc' = [pc EXCEPT ![p] = "perf"]
                /\ frame' = [frame EXCEPT ![p] = [key |-> key, perf |-> None, capacity |-> None]]
                /\ UNCHANGED <<ret, served, calculator>>
    /\ UNCHANGED tables

\* _calculate_new_capacity: the benchmark SELECT
read_perf(p) ==
    /\ pc[p] = "perf"
    /\ LET key == frame[p].key
           perf == fetchone(select_perf(model_hardware_performance,
                                        key.hardware_name, key.model_key))
       IN  IF perf = None
           THEN /\ returned(p, key, None, FALSE)
                /\ pc' = [pc EXCEPT ![p] = "idle"]
                /\ frame' = [frame EXCEPT ![p] = NoFrame]
           ELSE /\ pc' = [pc EXCEPT ![p] = "sla"]
                /\ frame' = [frame EXCEPT ![p].perf = perf]
                /\ UNCHANGED <<ret, served, calculator>>
    /\ UNCHANGED tables

\* _calculate_new_capacity: the service-level SELECT and the arithmetic
read_sla(p) ==
    /\ pc[p] = "sla"
    /\ LET key == frame[p].key
           sla == fetchone(select_sla(sla_levels, key.sla_level))
           capacity == IF sla = None THEN None
                       ELSE derive_capacity(frame[p].perf, sla,
                                            key.input_tokens, key.output_tokens)
       IN  IF IsResult(capacity)
           THEN /\ pc' = [pc EXCEPT ![p] = "cache"]
                /\ frame' = [frame EXCEPT ![p].capacity = capacity]
                /\ UNCHANGED <<ret, served, calculator>>
           ELSE /\ returned(p, key, capacity, FALSE)
                /\ pc' = [pc EXCEPT ![p] = "idle"]
                /\ frame' = [frame EXCEPT ![p] = NoFrame]
    /\ UNCHANGED tables

\* _cache_capacity and the return of the derived result
write_cache(p) ==
    /\ pc[p] = "cache"
    /\ hardware_model_sla_capacity' =
           _cache_capacity(hardware_model_sla_capacity, frame[p].key, frame[p].capacity)
    /\ returned(p, frame[p].key, frame[p].capacity, FALSE)
    /\ pc' = [pc EXCEPT ![p] = "idle"]
    /\ frame' = [frame EXCEPT ![p] = NoFrame]
    /\ UNCHANGED <<hardware_configs, model_hardware_performance, sla_levels,
                   model_pricing, model_pricing_history>>

(***************************************************************************)
(* Concurrent specification: callers interleave statement by statement     *)
(* while reference data are re-registered.                                 *)
(***************************************************************************)
ConcRegister ==
    \/ \E performance \in ConcPerfInputs :
           add_model_hardware_performance(Registrar, performance)
    \/ \E sla \in ConcSlaInputs : add_sla_level(Registrar, sla)

ConcLookup ==
    \E p \in Callers :
        \/ \E key \in ConcKeys : lookup_cache(p, key)
        \/ read_perf(p)
        \/ read_sla(p)
        \/ write_cache(p)

RaceLookup ==
    \E p \in Callers :
        \/ \E key \in RaceKeys : lookup_cache(p, key)
        \/ read_perf(p)
        \/ read_sla(p)
        \/ write_cache(p)

ConcNext == ConcRegister \/ ConcLookup

SpecConc == Init /\ [][ConcNext]_vars

(***************************************************************************)
(* Race specification: the reference data are fixed before the callers     *)
(* start and never change.                                                 *)
(***************************************************************************)
InitRace ==
    /\ hardware_configs = {}
    /\ model_hardware_performance \in { {} } \cup { {x} : x \in ConcPerfInputs }
    /\ sla_levels \in { {} } \cup { {x} : x \in ConcSlaInputs }
    /\ hardware_model_sla_capacity = {}
    /\ model_pricing = {}
    /\ model_pricing_history = <<>>
    /\ pc = [p \in Procs |-> "idle"]
    /\ frame = [p \in Procs |-> NoFrame]
    /\ ret = [p \in Procs |-> NoCall]
    /\ served = {}
    /\ calculator = NewCalculator

RaceNext == RaceLookup

SpecRace == InitRace /\ [][RaceNext]_vars

(***************************************************************************)
(* Sequential specification: one caller, every operation runs to its end.  *)
(***************************************************************************)
Register ==
    \/ \E performance \in PerfInputs : add_model_hardware_performance(Caller, performance)
    \/ \E sla \in SlaInputs : add_sla_level(Caller, sla)

Lookup == \E key \in Keys : calculate_hardware_capacity(Caller, key)

Next == Register \/ Lookup

Spec == Init /\ [][Next]_vars

(***************************************************************************)
(* Store specification: every registration of the database and lookups of  *)
(* one benchmarked pair, one caller.                                       *)
(***************************************************************************)
StoreRegister ==
    \/ \E hardware \in HardwareInputs : add_hardware_config(Caller, hardware)
    \/ \E performance \in StorePerfInputs : add_model_hardware_performance(Caller, performance)
    \/ \E sla \in StoreSlaInputs : add_sla_level(Caller, sla)
    \/ \E pricing \in PricingInputs : add_model_pricing(Caller, pricing)

StoreLookup == \E key \in StoreKeys : calculate_hardware_capacity(Caller, key)

StoreNext == StoreRegister \/ StoreLookup

SpecStore == Init /\ [][StoreNext]_vars

(***************************************************************************)
(* TokenServiceCalculator (token_service_calculator.py).  A model name is  *)
(* a sequence of one-character strings.                                    *)
(***************************************************************************)
CalculatorPricing(name, pin, pout) ==
    [model_name |-> name, input_price_per_m |-> pin, output_price_per_m |-> pout]

ServiceProfile(tin, tout, t) ==
    [input_tokens |-> tin, output_tokens |-> tout, response_time |-> t]

HardwarePerformance(n, mcr, mode, w) ==
    [hardware_name |-> n, prefill_tps |-> RInt(1000), decode_tps |-> RInt(100),
     max_concurrent_requests |-> mcr, cost_mode |-> mode, gpu_count |-> 4,
     power_consumption_w |-> w]

ServiceParameters(years, level) ==
    [lifecycle_years |-> years, average_load_factor |-> Rat(7, 10),
     uptime_percentage |-> Rat(99, 100), sla_level |-> level]

\* "Qwen2-7B", whose key has a benchmark, and "Qwen/Qwen2-7B", whose key has none
ModelPricingInputs ==
    { CalculatorPricing(<<"Q", "w", "e", "n", "2", "-", "7", "B">>, RInt(1), RInt(2)),
      CalculatorPricing(<<"Q", "w", "e", "n", "/", "Q", "w", "e", "n", "2", "-", "7", "B">>,
                        RInt(1), RInt(2)) }

ServiceProfileInputs ==
    { ServiceProfile(1000, 500, RInt(2)), ServiceProfile(50000, 10000, RInt(30)) }

\* a registered profile and one the store never holds, in both cost modes
HardwarePerformanceInputs ==
    { HardwarePerformance("RTX4090x4", 200, "rental", 1500),
      HardwarePerformance("RTX4090x4", 200, "purchase", 1500),
      HardwarePerformance("H100x8", 7, "rental", 3000),
      HardwarePerformance("H100x8", 7, "purchase", 3000) }

\* the four default levels, a level the table does not name, and a shorter lifecycle
ServiceParametersInputs ==
    { ServiceParameters(5, l) : l \in {"basic", "standard", "premium", "enterprise", "custom"} }
    \cup { ServiceParameters(3, "standard") }

UpperCase ==
    <<"A", "B", "C", "D", "E", "F", "G", "H", "I", "J", "K", "L", "M",
      "N", "O", "P", "Q", "R", "S", "T", "U", "V", "W", "X", "Y", "Z">>
LowerCase ==
    <<"a", "b", "c", "d", "e", "f", "g", "h", "i", "j", "k", "l", "m",
      "n", "o", "p", "q", "r", "s", "t", "u", "v", "w", "x", "y", "z">>
Digits == {"0", "1", "2", "3", "4", "5", "6", "7", "8", "9"}

\* str.lower() on one character
lower(c) ==
    IF \E i \in DOMAIN UpperCase : UpperCase[i] = c
    THEN LowerCase[CHOOSE i \in DOMAIN UpperCase : UpperCase[i] = c]
    ELSE c

\* the class [a-z0-9]
AlphaNumeric == { LowerCase[i] : i \in DOMAIN LowerCase } \cup Digits

RECURSIVE skip_run(_)
\* the rest of s after a leading run of characters outside [a-z0-9]
skip_run(s) ==
    IF s = <<>> \/ Head(s) \in AlphaNumeric THEN s ELSE skip_run(Tail(s))

RECURSIVE re_sub(_)
\* re.sub(r'[^a-z0-9]+', '-', s)
re_sub(s) ==
    IF s = <<>> THEN <<>>
    ELSE IF Head(s) \in AlphaNumeric THEN <<Head(s)>> \o re_sub(Tail(s))
    ELSE <<"-">> \o re_sub(skip_run(Tail(s)))

RECURSIVE strip(_)
\* str.strip('-')
strip(s) ==
    IF s = <<>> THEN s
    ELSE IF Head(s) = "-" THEN strip(Tail(s))
    ELSE IF s[Len(s)] = "-" THEN strip(SubSeq(s, 1, Len(s) - 1))
    ELSE s

RECURSIVE join(_)
\* the characters of s as one string
join(s) == IF s = <<>> THEN "" ELSE Head(s) \o join(Tail(s))

_get_model_key_from_pricing(pricing) ==
    join(strip(re_sub([i \in DOMAIN pricing.model_name |->
                          lower(pricing.model_name[i])])))

\* ModelPricing.calculate_request_revenue
calculate_request_revenue(pricing, input_tokens, output_tokens) ==
    RAdd(RMul(RDiv(RInt(input_tokens), RInt(1000000)), pricing.input_price_per_m),
         RMul(RDiv(RInt(output_tokens), RInt(1000000)), pricing.output_price_per_m))

\* the result of calculate_single_service_metrics, or the exception it raises
calculate_single_service_metrics(calc) ==
    IF \/ calc.model_pricing = None \/ calc.service_profile = None
       \/ calc.hardware = None \/ calc.service_params = None
    THEN AttributeError
    ELSE IF calc.hardware.prefill_tps[1] = 0 \/ calc.hardware.decode_tps[1] = 0
    THEN ZeroDivisionError
    ELSE
      LET revenue_per_request ==
              calculate_request_revenue(calc.model_pricing,
                                        calc.service_profile.input_tokens,
                                        calc.service_profile.output_tokens)
          prefill_time == RDiv(RInt(calc.service_profile.input_tokens),
                               calc.hardware.prefill_tps)
          decode_time == RDiv(RInt(calc.service_profile.output_tokens),
                              calc.hardware.decode_tps)
          processing_time == RAdd(prefill_time, decode_time)
          qps_per_instance == IF ~RLeq(processing_time, RInt(0))
                              THEN RDiv(RInt(1), processing_time) ELSE RInt(0)
          daily_requests_per_instance ==
              RMul(RMul(RMul(qps_per_instance, RInt(3600)), RInt(24)),
                   calc.service_params.uptime_percentage)
      IN  [revenue_per_request |-> revenue_per_request,
           processing_time |-> processing_time,
           qps_per_instance |-> qps_per_instance,
           daily_requests_per_instance |-> daily_requests_per_instance,
           daily_revenue_per_instance |->
               RMul(daily_requests_per_instance, revenue_per_request)]

\* variant: the depreciation is not spread over the months of a year
monthly_cost_stored_yearly(hw_config, cost_mode) ==
    IF cost_mode = "rental" THEN RInt(hw_config.monthly_rental_cost_yuan)
    ELSE RAdd(RAdd(RDiv(RInt(hw_config.purchase_cost_yuan), RInt(hw_config.depreciation_years)),
                   RInt(hw_config.monthly_maintenance_cost_yuan)),
              RMul(RDiv(RInt(hw_config.power_consumption_w * 24 * 30), RInt(1000)),
                   Rat(8, 10)))

\* lines 193-202: the monthly cost of a hardware profile found in the store
monthly_cost_stored(hw_config, cost_mode) ==
    IF cost_mode = "rental" THEN RInt(hw_config.monthly_rental_cost_yuan)
    ELSE RAdd(RAdd(RDiv(RDiv(RInt(hw_config.purchase_cost_yuan),
                             RInt(hw_config.depreciation_years)), RInt(12)),
                   RInt(hw_config.monthly_maintenance_cost_yuan)),
              RMul(RDiv(RInt(hw_config.power_consumption_w * 24 * 30), RInt(1000)),
                   Rat(8, 10)))

\* variant: the default purchase cost leaves the power bill out
monthly_cost_default_without_power(hardware) ==
    IF hardware.cost_mode = "rental" THEN RInt(8000)
    ELSE RAdd(RDiv(RDiv(RInt(80000), RInt(5)), RInt(12)), RInt(500))

\* lines 182-191: the monthly cost of a hardware profile the store does not hold
monthly_cost_default(hardware) ==
    IF hardware.cost_mode = "rental" THEN RInt(8000)
    ELSE RAdd(RAdd(RDiv(RDiv(RInt(80000), RInt(5)), RInt(12)), RInt(500)),
              RMul(RDiv(RInt(hardware.power_consumption_w * 24 * 30), RInt(1000)),
                   Rat(8, 10)))

\* the result of calculate_hardware_cost, or the exception it raises
hardware_cost(calc, configs) ==
    IF calc.hardware = None
    THEN [monthly_cost |-> RInt(0), lifecycle_cost |-> RInt(0), cost_details |-> <<>>]
    ELSE
      LET found == { hw \in configs : hw.name = calc.hardware.hardware_name }
          hw_config == CHOOSE hw \in found : TRUE
      IN  IF /\ found # {}
             /\ calc.hardware.cost_mode # "rental"
             /\ hw_config.depreciation_years = 0
          THEN ZeroDivisionError
          ELSE IF calc.service_params = None THEN AttributeError
          ELSE
            LET monthly_cost == IF found = {} THEN monthly_cost_default(calc.hardware)
                                ELSE monthly_cost_stored(hw_config, calc.hardware.cost_mode)
            IN  [monthly_cost |-> monthly_cost,
                 lifecycle_cost |->
                     RMul(RMul(monthly_cost, RInt(12)),
                          RInt(calc.service_params.lifecycle_years)),
                 cost_details |-> [mode |-> calc.hardware.cost_mode,
                                   hardware_name |-> calc.hardware.hardware_name,
                                   gpu_count |-> calc.hardware.gpu_count]]

\* lines 234-239: the static table
sla_configs ==
    [basic |-> Rat(1, 1), standard |-> Rat(8, 10),
     premium |-> Rat(6, 10), enterprise |-> Rat(4, 10)]

\* variant: a level the table does not name gets the whole capacity
sla_ratio_unknown_as_basic(sla_level) ==
    IF sla_level \in DOMAIN sla_configs THEN sla_configs[sla_level] ELSE Rat(1, 1)

\* line 241: sla_configs.get(sla_level, 0.8)
sla_ratio(sla_level) ==
    IF sla_level \in DOMAIN sla_configs THEN sla_configs[sla_level] ELSE Rat(8, 10)

\* database.py 241-242: calculate_hardware_capacity takes five positional
\* arguments; a call with fewer raises TypeError before the body runs
bind_calculate_hardware_capacity(args) ==
    IF Len(args) = 5
    THEN [hardware_name |-> args[1], model_key |-> args[2], sla_level |-> args[3],
          input_tokens |-> args[4], output_tokens |-> args[5]]
    ELSE TypeError

\* get_effective_concurrency: the value returned, the path that produced it
\* ("unset", "database" or "static"), and the cache table it leaves
effective_concurrency(calc, capacity_table, perf_table, sla_table) ==
    IF calc.model_pricing = None \/ calc.hardware = None \/ calc.service_params = None
    THEN [val |-> IF calc.hardware # None THEN calc.hardware.max_concurrent_requests ELSE 0,
          source |-> "unset", capacity_table |-> capacity_table]
    ELSE
      LET key == bind_calculate_hardware_capacity(
                     <<calc.hardware.hardware_name,
                       _get_model_key_from_pricing(calc.model_pricing),
                       calc.service_params.sla_level>>)
          cached == fetchone(select_capacity(capacity_table, key))
          capacity == IF key = TypeError THEN TypeError
                      ELSE IF cached # None THEN cached_result(cached)
                      ELSE _calculate_new_capacity(perf_table, sla_table, key)
          written == IF key # TypeError /\ cached = None /\ IsResult(capacity)
                     THEN _cache_capacity(capacity_table, key, capacity)
                     ELSE capacity_table
      IN  IF capacity # TypeError /\ IsResult(capacity)
          THEN [val |-> capacity.max_concurrent_requests, source |-> "database",
                capacity_table |-> written]
          ELSE [val |-> PyInt(RMul(RInt(calc.hardware.max_concurrent_requests),
                                   sla_ratio(calc.service_params.sla_level))),
                source |-> "static", capacity_table |-> written]

\* variant: the requests of one hour
daily_total_requests_of_an_hour(effective_qps) == RMul(effective_qps, RInt(3600))

\* line 265: effective_qps * 3600 * 24
daily_total_requests(effective_qps) == RMul(RMul(effective_qps, RInt(3600)), RInt(24))

\* variant: one month of cost is set against a year of revenue
annual_net_revenue_less_one_month(annual_revenue, monthly_cost) ==
    RSub(annual_revenue, monthly_cost)

\* line 283: annual_revenue - hardware_cost['monthly_cost'] * 12
annual_net_revenue(annual_revenue, monthly_cost) ==
    RSub(annual_revenue, RMul(monthly_cost, RInt(12)))

\* the result of calculate_lifecycle_revenue, or the exception it raises
lifecycle_revenue(calc, configs, capacity_table, perf_table, sla_table) ==
    LET single_metrics == calculate_single_service_metrics(calc)
        effective_concurrent_requests ==
            effective_concurrency(calc, capacity_table, perf_table, sla_table).val
        cost == hardware_cost(calc, configs)
    IN  IF single_metrics \in {AttributeError, ZeroDivisionError} THEN single_metrics
        ELSE IF calc.service_profile.response_time[1] = 0 THEN ZeroDivisionError
        ELSE IF cost \in {AttributeError, ZeroDivisionError} THEN cost
        ELSE
          LET total_qps == RDiv(RInt(effective_concurrent_requests),
                                calc.service_profile.response_time)
              effective_qps == RMul(total_qps, calc.service_params.average_load_factor)
              daily_total_revenue ==
                  RMul(daily_total_requests(effective_qps),
                       single_metrics.revenue_per_request)
              total_days == calc.service_params.lifecycle_years * 365
              lifecycle == RMul(daily_total_revenue, RInt(total_days))
              annual_revenue == RMul(daily_total_revenue, RInt(365))
          IN  [single_request_revenue |-> single_metrics.revenue_per_request,
               effective_qps |-> effective_qps,
               daily_total_requests |-> daily_total_requests(effective_qps),
               daily_revenue |-> daily_total_revenue,
               daily_net_revenue |->
                   RSub(daily_total_revenue, RDiv(cost.monthly_cost, RInt(30))),
               annual_revenue |-> annual_revenue,
               annual_net_revenue |-> annual_net_revenue(annual_revenue, cost.monthly_cost),
               lifecycle_revenue |-> lifecycle,
               lifecycle_net_revenue |-> RSub(lifecycle, cost.lifecycle_cost),
               concurrent_capacity |-> effective_concurrent_requests,
               utilization_rate |-> calc.service_params.average_load_factor,
               hardware_cost |-> cost]

\* what the caller observes when a calculator method ends with v
answered(p, op, v) ==
    /\ ret' = [ret EXCEPT ![p] = [op |-> op, val |-> v, lookup |-> ret[p].lookup]]
    /\ UNCHANGED served

set_model_pricing(p, pricing) ==
    /\ pc[p] = "idle"
    /\ calculator' = [calculator EXCEPT !.model_pricing = pricing]
    /\ answered(p, "set_model_pricing", None)
    /\ UNCHANGED <<tables, pc, frame>>

set_service_profile(p, service_profile) ==
    /\ pc[p] = "idle"
    /\ calculator' = [calculator EXCEPT !.service_profile = service_profile]
    /\ answered(p, "set_service_profile", None)
    /\ UNCHANGED <<tables, pc, frame>>

set_hardware(p, hardware) ==
    /\ pc[p] = "idle"
    /\ calculator' = [calculator EXCEPT !.hardware = hardware]
    /\ answered(p, "set_hardware", None)
    /\ UNCHANGED <<tables, pc, frame>>

set_service_parameters(p, params) ==
    /\ pc[p] = "idle"
    /\ calculator' = [calculator EXCEPT !.service_params = params]
    /\ answered(p, "set_service_parameters", None)
    /\ UNCHANGED <<tables, pc, frame>>

calculate_hardware_cost(p) ==
    /\ pc[p] = "idle"
    /\ answered(p, "calculate_hardware_cost",
                hardware_cost(calculator, get_hardware_configs(hardware_configs)))
    /\ UNCHANGED <<tables, pc, frame, calculator>>

get_effective_concurrency(p) ==
    /\ pc[p] = "idle"
    /\ LET out == effective_concurrency(calculator, hardware_model_sla_capacity,
                                        model_hardware_performance, sla_levels)
       IN  /\ hardware_model_sla_capacity' = out.capacity_table
           /\ answered(p, "get_effective_concurrency", out.val)
    /\ UNCHANGED <<hardware_configs, model_hardware_performance, sla_levels,
                   model_pricing, model_pricing_history, pc, frame, calculator>>

calculate_lifecycle_revenue(p) ==
    /\ pc[p] = "idle"
    /\ hardware_model_sla_capacity' =
           IF calculate_single_service_metrics(calculator)
                  \in {AttributeError, ZeroDivisionError}
           THEN hardware_model_sla_capacity
           ELSE effective_concurrency(calculator, hardware_model_sla_capacity,
                                      model_hardware_performance, sla_levels).capacity_table
    /\ answered(p, "calculate_lifecycle_revenue",
                lifecycle_revenue(calculator, get_hardware_configs(hardware_configs),
                                  hardware_model_sla_capacity,
                                  model_hardware_performance, sla_levels))
    /\ UNCHANGED <<hardware_configs, model_hardware_performance, sla_levels,
                   model_pricing, model_pricing_history, pc, frame, calculator>>

(***************************************************************************)
(* Calculator specification: one caller registers reference data, sets the *)
(* calculator up and asks it for its figures.                              *)
(***************************************************************************)
CalcRegister ==
    \/ \E hardware \in HardwareInputs : add_hardware_config(Caller, hardware)
    \/ \E performance \in StorePerfInputs : add_model_hardware_performance(Caller, performance)
    \/ \E sla \in StoreSlaInputs : add_sla_level(Caller, sla)

CalcConfigure ==
    \/ \E pricing \in ModelPricingInputs : set_model_pricing(Caller, pricing)
    \/ \E service_profile \in ServiceProfileInputs : set_service_profile(Caller, service_profile)
    \/ \E hardware \in HardwarePerformanceInputs : set_hardware(Caller, hardware)
    \/ \E params \in ServiceParametersInputs : set_service_parameters(Caller, params)

CalcCompute ==
    \/ calculate_hardware_cost(Caller)
    \/ get_effective_concurrency(Caller)
    \/ calculate_lifecycle_revenue(Caller)

CalcNext == CalcRegister \/ CalcConfigure \/ CalcCompute

SpecCalc == Init /\ [][CalcNext]_vars

(***************************************************************************)
(* Derivation specification: one benchmark and one service level are       *)
(* registered before the first lookup and stay; the caller looks up token  *)
(* profiles of that pair.                                                  *)
(***************************************************************************)
InitDerive ==
    /\ hardware_configs = {}
    /\ model_hardware_performance \in { {x} : x \in DerivePerfInputs }
    /\ sla_levels \in { {x} : x \in DeriveSlaInputs }
    /\ hardware_model_sla_capacity = {}
    /\ model_pricing = {}
    /\ model_pricing_history = <<>>
    /\ pc = [p \in Procs |-> "idle"]
    /\ frame = [p \in Procs |-> NoFrame]
    /\ ret = [p \in Procs |-> NoCall]
    /\ served = {}
    /\ calculator = NewCalculator

DeriveLookup == \E key \in DeriveKeys : calculate_hardware_capacity(Caller, key)

DeriveNext == DeriveLookup

SpecDerive == InitDerive /\ [][DeriveNext]_vars

(***************************************************************************)
(* Properties of the sequential specification.                             *)
(***************************************************************************)
CalcOp == "calculate_hardware_capacity"

\* the five key columns of a cached row
RowKey(r) ==
    [hardware_name |-> r.hardware_name, model_key |-> r.model_key,
     sla_level |-> r.sla_level, input_tokens |-> r.input_tokens,
     output_tokens |-> r.output_tokens]

RowsOf(capacity_table, key) == { r \in capacity_table : RowKey(r) = key }

HasPerf(key) ==
    \E r \in model_hardware_performance :
        r.hardware_name = key.hardware_name /\ r.model_key = key.model_key
HasSla(key) == \E r \in sla_levels : r.level = key.sla_level

\* this step is the caller's whole lookup of key
LookupStep(key) ==
    /\ ret'[Caller].op = CalcOp
    /\ ret'[Caller].lookup.key = key
    /\ calculate_hardware_capacity(Caller, key)

\* what the reference data registered right now derive for key
FreshCapacity(key) == _calculate_new_capacity(model_hardware_performance, sla_levels, key)

\* C1: once a lookup of a key has returned a result, every later lookup of
\* that key returns the same four fields, whatever was re-registered in between.
C1_RepeatLookupReturnsStoredResult ==
    \A p \in Procs :
        (ret[p].op = CalcOp /\ IsResult(ret[p].val)) =>
            \A s \in served : s.key = ret[p].lookup.key => s.val = ret[p].val

\* a lookup answered from the cache after a re-registration that would now
\* derive something else
C1_Witness ==
    /\ ret[Caller].op = CalcOp
    /\ ret[Caller].lookup.hit
    /\ IsResult(FreshCapacity(ret[Caller].lookup.key))
    /\ FreshCapacity(ret[Caller].lookup.key) # ret[Caller].val

\* C2: a lookup that misses the cache and derives a result leaves exactly one
\* row for its 5-tuple, holding the four returned fields; a lookup that
\* derives no result writes nothing.
C2_MissPersistsDerivedResult ==
    [][\A key \in Keys :
          (LookupStep(key) /\ RowsOf(hardware_model_sla_capacity, key) = {}) =>
              IF IsResult(ret'[Caller].val)
              THEN /\ Cardinality(RowsOf(hardware_model_sla_capacity', key)) = 1
                   /\ \A r \in RowsOf(hardware_model_sla_capacity', key) :
                          cached_result(r) = ret'[Caller].val
              ELSE hardware_model_sla_capacity' = hardware_model_sla_capacity]_vars

\* a miss has just been derived and stored
C2_Witness ==
    /\ ret[Caller].op = CalcOp
    /\ ~ret[Caller].lookup.hit
    /\ IsResult(ret[Caller].val)
    /\ \E r \in hardware_model_sla_capacity :
           RowKey(r) = ret[Caller].lookup.key /\ cached_result(r) = ret[Caller].val

\* C3: a lookup that yields NotFound writes no cache row; when the caller's
\* previous lookup of a key yielded NotFound and both records exist by now,
\* the next lookup of that key returns the result derived from them.
C3_NotFoundIsNotCached ==
    [][\A key \in Keys :
          LookupStep(key) =>
              /\ (ret'[Caller].val = None =>
                     hardware_model_sla_capacity' = hardware_model_sla_capacity)
              /\ (/\ ret[Caller].lookup = [key |-> key, val |-> None, hit |-> FALSE]
                  /\ HasPerf(key) /\ HasSla(key))
                 => (IsResult(ret'[Caller].val) /\ ret'[Caller].val = FreshCapacity(key))]_vars

\* NotFound was returned, the missing record has been registered since, and
\* no row stands in the way of the next lookup
C3_Witness ==
    /\ ret[Caller].op \in {"add_model_hardware_performance", "add_sla_level"}
    /\ ret[Caller].lookup # NoLookup
    /\ ret[Caller].lookup.val = None
    /\ HasPerf(ret[Caller].lookup.key) /\ HasSla(ret[Caller].lookup.key)
    /\ RowsOf(hardware_model_sla_capacity, ret[Caller].lookup.key) = {}

\* C4: on a cache miss the lookup returns None when the benchmark row of the
\* (model, hardware) pair or the row of the service level is missing, and a
\* result when both exist.
C4_MissingRecordYieldsNotFound ==
    [][\A key \in Keys :
          (LookupStep(key) /\ RowsOf(hardware_model_sla_capacity, key) = {}) =>
              IF HasPerf(key) /\ HasSla(key)
              THEN IsResult(ret'[Caller].val)
              ELSE ret'[Caller].val = None]_vars

\* NotFound for a benchmarked pair whose service level is unknown
C4_Witness ==
    /\ ret[Caller].op = CalcOp
    /\ ret[Caller].val = None
    /\ HasPerf(ret[Caller].lookup.key)
    /\ ~HasSla(ret[Caller].lookup.key)

\* every result the registrable records can derive for the token counts of key
DerivableFor(key) ==
    { derive_capacity(perf, sla, key.input_tokens, key.output_tokens) :
        perf \in { x \in PerfInputs : /\ x.hardware_name = key.hardware_name
                                      /\ x.model_key = key.model_key },
        sla \in { x \in SlaInputs : x.level = key.sla_level } }

\* C6: a lookup of one key never creates, changes or removes the row of a
\* key with other token counts, and returns a value derived for its own
\* token counts.
C6_TokenProfilesAreIsolated ==
    [][\A key \in Keys :
          LookupStep(key) =>
              /\ { r \in hardware_model_sla_capacity' : RowKey(r) # key }
                   = { r \in hardware_model_sla_capacity : RowKey(r) # key }
              /\ IsResult(ret'[Caller].val) => ret'[Caller].val \in DerivableFor(key)]_vars

\* two token profiles of one (hardware, model, service level) cached with
\* different concurrency
C6_Witness ==
    \E r1, r2 \in hardware_model_sla_capacity :
        /\ r1.hardware_name = r2.hardware_name
        /\ r1.model_key = r2.model_key
        /\ r1.sla_level = r2.sla_level
        /\ <<r1.input_tokens, r1.output_tokens>> # <<r2.input_tokens, r2.output_tokens>>
        /\ r1.max_concurrent_requests # r2.max_concurrent_requests

(***************************************************************************)
(* Properties of the store specification.                                  *)
(***************************************************************************)
RegistrationOps ==
    {"add_hardware_config", "add_model_hardware_performance",
     "add_sla_level", "add_model_pricing"}

\* C5: a cached row appears only through a lookup of its key that missed the
\* cache; the four registrations leave the cache table as it is; no
\* operation removes or changes a cached row.
C5_CacheRowsOnlyFromMissedLookups ==
    [][/\ hardware_model_sla_capacity \subseteq hardware_model_sla_capacity'
       /\ \A r \in hardware_model_sla_capacity' \ hardware_model_sla_capacity :
              /\ ret'[Caller].op = CalcOp
              /\ ret'[Caller].lookup.key = RowKey(r)
              /\ ~ret'[Caller].lookup.hit
              /\ RowsOf(hardware_model_sla_capacity, RowKey(r)) = {}
       /\ ret'[Caller].op \in RegistrationOps =>
              hardware_model_sla_capacity' = hardware_model_sla_capacity]_vars

\* every table holds a row, both token profiles are cached, and the last
\* operation was a re-registration of the benchmark
C5_Witness ==
    /\ ret[Caller].op = "add_model_hardware_performance"
    /\ Cardinality(hardware_model_sla_capacity) = 2
    /\ hardware_configs # {}
    /\ model_pricing # {}
    /\ Len(model_pricing_history) > 0

(***************************************************************************)
(* Properties of the concurrent specifications.                            *)
(***************************************************************************)
\* C7: whatever the interleaving of lookups and re-registrations, the cache
\* table holds at most one row per 5-tuple.
C7_OneRowPerKey ==
    \A r1, r2 \in hardware_model_sla_capacity : RowKey(r1) = RowKey(r2) => r1 = r2

\* the row of a key has been overwritten: it differs from the first result
\* served for the key
C7_Witness ==
    \E s \in served : \E r \in hardware_model_sla_capacity :
        RowKey(r) = s.key /\ cached_result(r) # s.val

\* C8: with the reference data fixed, two callers looking up one key return
\* identical outcomes whatever the interleaving, and once a result has been
\* returned the cache holds exactly one row for the key, equal to it.
C8_RacingCallersAgree ==
    \A p, q \in Callers :
        (/\ ret[p].op = CalcOp /\ ret[q].op = CalcOp
         /\ ret[p].lookup.key = ret[q].lookup.key) =>
            /\ ret[p].val = ret[q].val
            /\ IsResult(ret[p].val) =>
                   /\ RowsOf(hardware_model_sla_capacity, ret[p].lookup.key) # {}
                   /\ \A r \in RowsOf(hardware_model_sla_capacity, ret[p].lookup.key) :
                          cached_result(r) = ret[p].val

\* two callers have both missed the cache for one key, derived, stored and
\* returned
C8_Witness ==
    \E p, q \in Callers :
        /\ p # q
        /\ ret[p].op = CalcOp /\ ret[q].op = CalcOp
        /\ ret[p].lookup.key = ret[q].lookup.key
        /\ ~ret[p].lookup.hit /\ ~ret[q].lookup.hit
        /\ IsResult(ret[p].val) /\ IsResult(ret[q].val)
        /\ pc[p] = "idle" /\ pc[q] = "idle"

(***************************************************************************)
(* Properties of the derivation specification.                             *)
(***************************************************************************)
\* a fraction in (0,1]
IsFraction(x) == x[1] > 0 /\ RLeq(x, RInt(1))

\* the benchmark of the pair has max_concurrent > 0 and the service level
\* has both fractions in (0,1]
ValidReferenceData(key) ==
    /\ \A perf \in select_perf(model_hardware_performance, key.hardware_name, key.model_key) :
           perf.max_concurrent > 0
    /\ \A sla \in select_sla(sla_levels, key.sla_level) :
           IsFraction(sla.max_concurrent_ratio) /\ IsFraction(sla.availability_target)

\* C9: for a benchmark with max_concurrent > 0 and a service level with both
\* fractions in (0,1], the derived max_concurrent_requests of every token
\* profile is at most the benchmarked max_concurrent.
C9_EffectiveConcurrencyBounded ==
    \A r \in hardware_model_sla_capacity :
        ValidReferenceData(RowKey(r)) =>
            \A perf \in select_perf(model_hardware_performance, r.hardware_name, r.model_key) :
                r.max_concurrent_requests <= perf.max_concurrent

\* a freshly derived concurrency that attains the benchmark, for valid
\* reference data
C9_Witness ==
    /\ ret[Caller].op = CalcOp
    /\ ~ret[Caller].lookup.hit
    /\ IsResult(ret[Caller].val)
    /\ ValidReferenceData(ret[Caller].lookup.key)
    /\ \E perf \in model_hardware_performance :
           ret[Caller].val.max_concurrent_requests = perf.max_concurrent

\* C10: with the benchmark and the service level fixed, a token profile of
\* larger or equal total never gets a larger max_concurrent_requests.
C10_MoreTokensNeverMoreConcurrency ==
    \A r1, r2 \in hardware_model_sla_capacity :
        (/\ r1.hardware_name = r2.hardware_name
         /\ r1.model_key = r2.model_key
         /\ r1.sla_level = r2.sla_level
         /\ r1.input_tokens + r1.output_tokens <= r2.input_tokens + r2.output_tokens)
        => r2.max_concurrent_requests <= r1.max_concurrent_requests

\* two cached profiles, the larger one with strictly less concurrency
C10_Witness ==
    \E r1, r2 \in hardware_model_sla_capacity :
        /\ r1.input_tokens + r1.output_tokens < r2.input_tokens + r2.output_tokens
        /\ r2.max_concurrent_requests < r1.max_concurrent_requests

(***************************************************************************)
(* Claims about the figures of a derivation (SpecDerive).                  *)
(***************************************************************************)
StandardSla == Sla("standard", Rat(995, 1000), Rat(8, 10))

\* C11: every derived result, and so every cached row and every returned
\* result, has cpu_usage_percent <= 95.
C11_CpuUsageAtMost95 ==
    /\ \A r \in hardware_model_sla_capacity : RLeq(r.cpu_usage_percent, RInt(95))
    /\ \A p \in Procs :
           IsResult(ret[p].val) => RLeq(ret[p].val.cpu_usage_percent, RInt(95))

\* a cached row whose processor figure was cut down to 95
C11_Witness ==
    \E r \in hardware_model_sla_capacity :
        \E sla \in select_sla(sla_levels, r.sla_level) :
            /\ r.cpu_usage_percent = RInt(95)
            /\ ~RLeq(RMul(r.memory_usage_percent, sla.availability_target), RInt(95))

\* C12: a freshly derived max_concurrent_requests is
\* floor(floor(max_concurrent / max(1, ((in + out) / 10000) * 0.5)) * ratio * availability),
\* here in integer arithmetic; for 200, 0.8, 0.995 and the profile
\* 50000/10000 the token-adjusted value is 66 and the result 52.
C12_EffectiveConcurrencyFormula ==
    \A r \in hardware_model_sla_capacity :
        \A perf \in select_perf(model_hardware_performance, r.hardware_name, r.model_key) :
            \A sla \in select_sla(sla_levels, r.sla_level) :
                LET total == r.input_tokens + r.output_tokens
                    adjusted == (perf.max_concurrent * 20000)
                                \div (IF total > 20000 THEN total ELSE 20000)
                    effective ==
                        (adjusted * sla.max_concurrent_ratio[1] * sla.availability_target[1])
                        \div (sla.max_concurrent_ratio[2] * sla.availability_target[2])
                IN  /\ r.max_concurrent_requests = effective
                    /\ (/\ perf.max_concurrent = 200
                        /\ sla = StandardSla
                        /\ r.input_tokens = 50000
                        /\ r.output_tokens = 10000)
                       => /\ adjusted_concurrent(200, 50000, 10000) = 66
                          /\ r.max_concurrent_requests = 52

\* the row of the worked example
C12_Witness ==
    /\ \E perf \in model_hardware_performance : perf.max_concurrent = 200
    /\ StandardSla \in sla_levels
    /\ \E r \in hardware_model_sla_capacity :
           /\ r.input_tokens = 50000
           /\ r.output_tokens = 10000
           /\ r.max_concurrent_requests = 52

\* C13: the token-adjusted concurrency never exceeds max_concurrent and
\* equals it for every profile with in + out <= 20000, so that the derived
\* max_concurrent_requests of such a profile is
\* floor(max_concurrent * ratio * availability) whatever the token counts
\* (159 for 200, 0.8, 0.995 and the profile 1000/500).
C13_SmallProfilesKeepBenchmark ==
    /\ \A perf \in model_hardware_performance :
           \A key \in DeriveKeys :
               LET adjusted == adjusted_concurrent(perf.max_concurrent,
                                                   key.input_tokens, key.output_tokens)
               IN  /\ adjusted <= perf.max_concurrent
                   /\ key.input_tokens + key.output_tokens <= 20000
                      => adjusted = perf.max_concurrent
    /\ \A r \in hardware_model_sla_capacity :
           r.input_tokens + r.output_tokens <= 20000 =>
               \A perf \in select_perf(model_hardware_performance,
                                       r.hardware_name, r.model_key) :
                   \A sla \in select_sla(sla_levels, r.sla_level) :
                       /\ r.max_concurrent_requests =
                              (perf.max_concurrent * sla.max_concurrent_ratio[1]
                                                   * sla.availability_target[1])
                              \div (sla.max_concurrent_ratio[2] * sla.availability_target[2])
                       /\ (/\ perf.max_concurrent = 200
                           /\ sla = StandardSla
                           /\ r.input_tokens = 1000
                           /\ r.output_tokens = 500)
                          => r.max_concurrent_requests = 159

\* two cached small profiles of different size with the result of the
\* worked example
C13_Witness ==
    \E r1, r2 \in hardware_model_sla_capacity :
        /\ r1.input_tokens = 1000
        /\ r1.output_tokens = 500
        /\ r1.max_concurrent_requests = 159
        /\ r2.input_tokens + r2.output_tokens <= 20000
        /\ r2.output_tokens # r1.output_tokens
        /\ r2.max_concurrent_requests = 159

\* C14: a lookup that misses the cache while the benchmark row has
\* avg_response_time_ms = 0 or max_concurrent = 0 returns None and caches
\* nothing, instead of ending in a division error.
C14_ZeroFiguresYieldNotFound ==
    \A perf \in model_hardware_performance :
        (/\ (perf.avg_response_time_ms[1] = 0 \/ perf.max_concurrent = 0)
         /\ ret[Caller].op = CalcOp)
        => /\ ret[Caller].val = None
           /\ hardware_model_sla_capacity = {}

InvalidConfiguration == [tag |-> "InvalidConfiguration"]

\* C15: a lookup with a zero or negative input_tokens or output_tokens is
\* rejected as InvalidConfiguration: it returns no result and no row with
\* such token counts is ever written.
C15_InvalidTokenCountsRejected ==
    /\ \A r \in hardware_model_sla_capacity : r.input_tokens > 0 /\ r.output_tokens > 0
    /\ (/\ ret[Caller].op = CalcOp
        /\ (ret[Caller].lookup.key.input_tokens <= 0
            \/ ret[Caller].lookup.key.output_tokens <= 0))
       => ret[Caller].val = InvalidConfiguration

(***************************************************************************)
(* Claims about the price history (SpecStore).                             *)
(***************************************************************************)
HistoryOf(history, model_key) ==
    SelectSeq(history, LAMBDA r : r.model_key = model_key)

\* C19: an add_model_pricing that replaces the record of a model_key appends
\* exactly one history row, the superseded record, and one for a new
\* model_key appends none; no other step touches the history, whose rows are
\* never changed or removed; model_pricing holds one row per model_key.
C19_HistoryRecordsEveryOverwrite ==
    [][/\ Len(model_pricing_history') >= Len(model_pricing_history)
       /\ SubSeq(model_pricing_history', 1, Len(model_pricing_history))
              = model_pricing_history
       /\ ret'[Caller].op # "add_model_pricing"
              => model_pricing_history' = model_pricing_history
       /\ \A pricing \in PricingInputs :
              (/\ ret'[Caller].op = "add_model_pricing"
               /\ ret'[Caller].val = None
               /\ add_model_pricing(Caller, pricing))
              => LET superseded == { r \in model_pricing :
                                         r.model_key = pricing.model_key }
                 IN  /\ superseded = {} =>
                            model_pricing_history' = model_pricing_history
                     /\ \A r \in superseded :
                            model_pricing_history' = Append(model_pricing_history, r)
                     /\ \A k \in { x.model_key : x \in PricingInputs } \ {pricing.model_key} :
                            HistoryOf(model_pricing_history', k)
                                = HistoryOf(model_pricing_history, k)
       /\ \A r1, r2 \in model_pricing' : r1.model_key = r2.model_key => r1 = r2]_vars

\* one model overwritten with other prices, its former record in the history,
\* next to a model registered once and absent from the history
C19_Witness ==
    /\ \E r \in model_pricing :
           /\ Len(HistoryOf(model_pricing_history, r.model_key)) = 1
           /\ HistoryOf(model_pricing_history, r.model_key)[1] # r
    /\ \E r \in model_pricing : HistoryOf(model_pricing_history, r.model_key) = <<>>

(***************************************************************************)
(* Claims about the calculator (SpecCalc).                                 *)
(***************************************************************************)
CalculatorReady ==
    /\ calculator.model_pricing # None
    /\ calculator.hardware # None
    /\ calculator.service_params # None

\* the capacity key of the calculator's settings; needs all four of them
CalculatorKey ==
    [hardware_name |-> calculator.hardware.hardware_name,
     model_key |-> _get_model_key_from_pricing(calculator.model_pricing),
     sla_level |-> calculator.service_params.sla_level,
     input_tokens |-> calculator.service_profile.input_tokens,
     output_tokens |-> calculator.service_profile.output_tokens]

\* the path the calculator's concurrency takes in the current state
ConcurrencySource ==
    effective_concurrency(calculator, hardware_model_sla_capacity,
                          model_hardware_performance, sla_levels).source

\* C16: with a benchmark for the calculator's hardware and model and a row
\* for its service level, get_effective_concurrency returns the
\* max_concurrent_requests that calculate_hardware_capacity yields for the
\* service profile's token counts, and does not take the static table.
C16_ConcurrencyFromDerivedCapacity ==
    (/\ ret[Caller].op = "get_effective_concurrency"
     /\ CalculatorReady
     /\ calculator.service_profile # None
     /\ HasPerf(CalculatorKey)
     /\ HasSla(CalculatorKey))
    => /\ ConcurrencySource # "static"
       /\ LET cached == RowsOf(hardware_model_sla_capacity, CalculatorKey)
          IN  IF cached # {}
              THEN \A r \in cached : ret[Caller].val = r.max_concurrent_requests
              ELSE ret[Caller].val = FreshCapacity(CalculatorKey).max_concurrent_requests

\* the keys of the dictionary calculate_lifecycle_revenue returns
ProjectionFigures ==
    { "single_request_revenue", "effective_qps", "daily_total_requests", "daily_revenue",
      "daily_net_revenue", "annual_revenue", "annual_net_revenue", "lifecycle_revenue",
      "lifecycle_net_revenue", "concurrent_capacity", "utilization_rate", "hardware_cost" }

IsProjection(v) == v \notin {None, AttributeError, ZeroDivisionError, TypeError}

\* C17: a projection computed from the static table says so: it carries an
\* entry, next to its figures, that tells the caller the fallback was used.
C17_ProjectionRecordsFallback ==
    (/\ ret[Caller].op = "calculate_lifecycle_revenue"
     /\ IsProjection(ret[Caller].val)
     /\ ConcurrencySource = "static")
    => \E entry \in DOMAIN ret[Caller].val : entry \notin ProjectionFigures

\* C18: when the database path gives no result, get_effective_concurrency
\* returns floor(hardware.max_concurrent_requests * factor), factor 1.0 for
\* basic, 0.8 for standard, 0.6 for premium, 0.4 for enterprise and 0.8 for
\* any other level (in tenths below).
C18_StaticFallbackValue ==
    (/\ ret[Caller].op = "get_effective_concurrency"
     /\ CalculatorReady
     /\ ConcurrencySource = "static")
    => LET level == calculator.service_params.sla_level
           tenths == CASE level = "basic" -> 10
                       [] level = "standard" -> 8
                       [] level = "premium" -> 6
                       [] level = "enterprise" -> 4
                       [] OTHER -> 8
       IN  ret[Caller].val = (calculator.hardware.max_concurrent_requests * tenths) \div 10

\* the fallback for a level the table does not name, rounded down from 5.6
C18_Witness ==
    /\ ret[Caller].op = "get_effective_concurrency"
    /\ CalculatorReady
    /\ ConcurrencySource = "static"
    /\ calculator.service_params.sla_level = "custom"
    /\ calculator.hardware.max_concurrent_requests = 7
    /\ ret[Caller].val = 5

StoredConfigs ==
    { hw \in hardware_configs :
          calculator.hardware # None /\ hw.name = calculator.hardware.hardware_name }

\* C20: for hardware found in the store, monthly_cost is the stored
\* monthly_rental_cost_yuan in rental mode and otherwise
\* purchase_cost / depreciation_years / 12 + maintenance
\* + power_w * 24 * 30 / 1000 * 0.8 (over the denominator
\* depreciation_years * 12 * 125 below), and lifecycle_cost is
\* monthly_cost * 12 * lifecycle_years.
C20_StoredHardwareCost ==
    (/\ ret[Caller].op = "calculate_hardware_cost"
     /\ IsProjection(ret[Caller].val)
     /\ StoredConfigs # {})
    => \A hw \in StoredConfigs :
           LET monthly == ret[Caller].val.monthly_cost
               lifecycle == ret[Caller].val.lifecycle_cost
               months == hw.depreciation_years * 12
           IN  /\ IF calculator.hardware.cost_mode = "rental"
                  THEN monthly = RInt(hw.monthly_rental_cost_yuan)
                  ELSE monthly[1] * (months * 125)
                       = monthly[2] * (hw.purchase_cost_yuan * 125
                                       + hw.monthly_maintenance_cost_yuan * months * 125
                                       + hw.power_consumption_w * 72 * months)
               /\ lifecycle[1] * monthly[2]
                  = lifecycle[2] * monthly[1] * 12 * calculator.service_params.lifecycle_years

\* the cost of a purchased, registered profile over a lifecycle of three years
C20_Witness ==
    /\ ret[Caller].op = "calculate_hardware_cost"
    /\ IsProjection(ret[Caller].val)
    /\ StoredConfigs # {}
    /\ calculator.hardware.cost_mode = "purchase"
    /\ calculator.service_params.lifecycle_years = 3
    /\ ret[Caller].val.monthly_cost = Rat(8092, 3)
    /\ ret[Caller].val.lifecycle_cost = RInt(97104)

\* C21: for a hardware_name without a record in the store,
\* calculate_hardware_cost returns a result whose monthly_cost is 8000 in
\* rental mode and 80000 / 5 / 12 + 500 + power_consumption_w * 24 * 30 / 1000 * 0.8
\* in purchase mode, the power being that of the calculator's hardware
\* (over the denominator 7500 below).
C21_DefaultHardwareCost ==
    (/\ ret[Caller].op = "calculate_hardware_cost"
     /\ calculator.hardware # None
     /\ calculator.service_params # None
     /\ StoredConfigs = {})
    => /\ IsProjection(ret[Caller].val)
       /\ LET monthly == ret[Caller].val.monthly_cost
          IN  IF calculator.hardware.cost_mode = "rental"
              THEN monthly = RInt(8000)
              ELSE monthly[1] * 7500
                   = monthly[2] * (80000 * 125 + 500 * 7500
                                   + calculator.hardware.power_consumption_w * 72 * 60)

\* the default purchase cost of an unregistered profile drawing 3000 W
C21_Witness ==
    /\ ret[Caller].op = "calculate_hardware_cost"
    /\ calculator.hardware # None
    /\ calculator.service_params # None
    /\ StoredConfigs = {}
    /\ calculator.hardware.cost_mode = "purchase"
    /\ calculator.hardware.power_consumption_w = 3000
    /\ ret[Caller].val.monthly_cost = Rat(10684, 3)

\* a projection was returned for the calculator's current settings
ProjectionReturned ==
    /\ ret[Caller].op = "calculate_lifecycle_revenue"
    /\ IsProjection(ret[Caller].val)

\* C22: in a projection each net figure is the gross revenue of its period
\* minus the hardware cost of that period, all three costs coming from one
\* monthly_cost: a thirtieth of it for a day, twelve times it for a year,
\* and lifecycle_cost = monthly_cost * 12 * lifecycle_years for the lifecycle.
C22_NetIsGrossMinusCost ==
    ProjectionReturned =>
        LET projection == ret[Caller].val
            monthly_cost == projection.hardware_cost.monthly_cost
        IN  /\ projection.daily_net_revenue
                   = RSub(projection.daily_revenue, RDiv(monthly_cost, RInt(30)))
            /\ projection.annual_net_revenue
                   = RSub(projection.annual_revenue, RMul(RInt(12), monthly_cost))
            /\ projection.lifecycle_net_revenue
                   = RSub(projection.lifecycle_revenue, projection.hardware_cost.lifecycle_cost)
            /\ projection.hardware_cost.lifecycle_cost
                   = RMul(monthly_cost, RInt(12 * calculator.service_params.lifecycle_years))

\* a projection with a cost to subtract and revenue to subtract it from
C22_Witness ==
    /\ ProjectionReturned
    /\ ret[Caller].val.hardware_cost.monthly_cost = Rat(8092, 3)
    /\ ret[Caller].val.annual_revenue = RInt(8241408)
    /\ ret[Caller].val.annual_net_revenue = RInt(8209040)

\* C23: a projection has
\* effective_qps = effective_concurrency / response_time * average_load_factor,
\* daily_total_requests = effective_qps * 86400,
\* daily_revenue = daily_total_requests * revenue_per_request,
\* annual_revenue = daily_revenue * 365 and
\* lifecycle_revenue = daily_revenue * 365 * lifecycle_years,
\* effective_concurrency being what get_effective_concurrency returns.
C23_GrossRevenueFormulas ==
    ProjectionReturned =>
        LET projection == ret[Caller].val
            concurrency ==
                effective_concurrency(calculator, hardware_model_sla_capacity,
                                      model_hardware_performance, sla_levels).val
            revenue_per_request ==
                calculate_request_revenue(calculator.model_pricing,
                                          calculator.service_profile.input_tokens,
                                          calculator.service_profile.output_tokens)
        IN  /\ projection.concurrent_capacity = concurrency
            /\ projection.effective_qps
                   = RMul(RDiv(RInt(concurrency), calculator.service_profile.response_time),
                          calculator.service_params.average_load_factor)
            /\ projection.daily_total_requests = RMul(projection.effective_qps, RInt(86400))
            /\ projection.daily_revenue
                   = RMul(projection.daily_total_requests, revenue_per_request)
            /\ projection.annual_revenue = RMul(projection.daily_revenue, RInt(365))
            /\ projection.lifecycle_revenue
                   = RMul(projection.daily_revenue,
                          RInt(365 * calculator.service_params.lifecycle_years))

\* the projection of 160 concurrent requests of 30 s at load 0.7
C23_Witness ==
    /\ ProjectionReturned
    /\ ret[Caller].val.concurrent_capacity = 160
    /\ ret[Caller].val.effective_qps = Rat(56, 15)
    /\ ret[Caller].val.daily_total_requests = RInt(322560)
    /\ ret[Caller].val.lifecycle_revenue = RInt(41207040)

\* C28: the net figures of one projection agree with each other:
\* lifecycle_net_revenue = lifecycle_years * annual_net_revenue and
\* annual_net_revenue = 365 * daily_net_revenue.
C28_NetFiguresConsistent ==
    ProjectionReturned =>
        LET projection == ret[Caller].val
        IN  /\ RDiv(projection.lifecycle_net_revenue,
                    RInt(calculator.service_params.lifecycle_years))
                   = projection.annual_net_revenue
            /\ RDiv(projection.annual_net_revenue, RInt(365))
                   = projection.daily_net_revenue

\* C24: add_hardware_config(h) leaves get_hardware_configs with exactly one
\* entry named h.name, equal to h in every field, and with the entries of
\* all other names as they were.
C24_HardwareUpsert ==
    [][\A h \in HardwareInputs :
          (/\ ret'[Caller].op = "add_hardware_config"
           /\ add_hardware_config(Caller, h))
          => /\ { c \in get_hardware_configs(hardware_configs') : c.name = h.name } = {h}
             /\ { c \in get_hardware_configs(hardware_configs') : c.name # h.name }
                    = { c \in get_hardware_configs(hardware_configs) : c.name # h.name }]_vars

\* the re-priced RTX4090x4 record next to the record of another name, right
\* after a registration
C24_Witness ==
    /\ ret[Caller].op = "add_hardware_config"
    /\ Cardinality(get_hardware_configs(hardware_configs)) = 2
    /\ \E c \in get_hardware_configs(hardware_configs) :
           c.name = "RTX4090x4" /\ c.purchase_cost_yuan = 90000

\* C27: an add_model_pricing that fails on the write of the current record
\* leaves model_pricing and model_pricing_history as they were: the history
\* row inserted earlier in the call is not kept.
C27_FailedPricingLeavesNoTrace ==
    [][(/\ ret'[Caller].op = "add_model_pricing"
        /\ ret'[Caller].val = IntegrityError
        /\ \E pricing \in PricingInputs : add_model_pricing(Caller, pricing))
       => /\ model_pricing' = model_pricing
          /\ model_pricing_history' = model_pricing_history]_vars

\* a rejected call for a model that had a record to archive, after an
\* earlier overwrite of it
C27_Witness ==
    /\ ret[Caller].op = "add_model_pricing"
    /\ ret[Caller].val = IntegrityError
    /\ \E r \in model_pricing :
           /\ r.model_key = "qwen2-7b"
           /\ Len(HistoryOf(model_pricing_history, r.model_key)) = 1

\* C25: callers of one key interleaved with re-registrations: once a result
\* has been returned for the key, the row of the key keeps holding that
\* result and every lookup that reads the row returns it; a slower caller
\* never overwrites the row with a value derived from older reference data.
C25_ServedRowNeverOverwritten ==
    \A s \in served :
        /\ \A r \in RowsOf(hardware_model_sla_capacity, s.key) : cached_result(r) = s.val
        /\ \A p \in Callers :
               (/\ ret[p].op = CalcOp
                /\ ret[p].lookup.key = s.key
                /\ ret[p].lookup.hit)
               => ret[p].val = s.val

\* C26 as stated: every result a lookup returns, derived or cached, has
\* max_concurrent_requests <= the max_concurrent now registered for the pair.
C26_BoundedByCurrentBenchmark ==
    (ret[Caller].op = CalcOp /\ IsResult(ret[Caller].val)) =>
        \A perf \in select_perf(model_hardware_performance,
                                ret[Caller].lookup.key.hardware_name,
                                ret[Caller].lookup.key.model_key) :
            ret[Caller].val.max_concurrent_requests <= perf.max_concurrent

\* C26 amended: a freshly derived result has max_concurrent_requests <= the
\* max_concurrent registered at the time of the lookup, and a result read
\* from the cache is the stored row, unchanged since its derivation,
\* whatever is registered now (benchmarks positive, fractions in (0,1]).
C26_BoundedByBenchmarkAtDerivation ==
    [][\A key \in Keys :
          (LookupStep(key) /\ IsResult(ret'[Caller].val)) =>
              IF RowsOf(hardware_model_sla_capacity, key) = {}
              THEN \A perf \in select_perf(model_hardware_performance,
                                           key.hardware_name, key.model_key) :
                       ret'[Caller].val.max_concurrent_requests <= perf.max_concurrent
              ELSE \A r \in RowsOf(hardware_model_sla_capacity, key) :
                       /\ ret'[Caller].val = cached_result(r)
                       /\ r \in hardware_model_sla_capacity']_vars

\* a result read from the cache that exceeds the benchmark registered now
C26_Witness ==
    /\ ret[Caller].op = CalcOp
    /\ ret[Caller].lookup.hit
    /\ IsResult(ret[Caller].val)
    /\ \E perf \in select_perf(model_hardware_performance,
                               ret[Caller].lookup.key.hardware_name,
                               ret[Caller].lookup.key.model_key) :
           ret[Caller].val.max_concurrent_requests > perf.max_concurrent

\* C25 amended: the last writer wins.  A caller that derived a result stores
\* it over whatever row the key has, also one another caller was served
\* from, and returns it; a lookup that finds a row returns that row's
\* content and leaves the table alone.  So a result served once stays the
\* answer only until a slower caller overwrites the row.
C25_LastWriterWins ==
    [][\A p \in Callers :
          /\ (pc[p] = "cache" /\ write_cache(p)) =>
                 /\ ret'[p].val = frame[p].capacity
                 /\ RowsOf(hardware_model_sla_capacity', frame[p].key) # {}
                 /\ \A r \in RowsOf(hardware_model_sla_capacity', frame[p].key) :
                        cached_result(r) = frame[p].capacity
          /\ \A key \in ConcKeys :
                 (/\ pc[p] = "idle"
                  /\ RowsOf(hardware_model_sla_capacity, key) # {}
                  /\ lookup_cache(p, key)) =>
                     /\ \A r \in RowsOf(hardware_model_sla_capacity, key) :
                            ret'[p].val = cached_result(r)
                     /\ hardware_model_sla_capacity' = hardware_model_sla_capacity]_vars

\* a caller has just stored and returned a result over the row another
\* caller had been served from with another value
C25_Witness ==
    \E s \in served : \E p \in Callers :
        /\ ret[p].op = CalcOp
        /\ ret[p].lookup.key = s.key
        /\ ~ret[p].lookup.hit
        /\ IsResult(ret[p].val)
        /\ ret[p].val # s.val
        /\ \A r \in RowsOf(hardware_model_sla_capacity, s.key) :
               cached_result(r) = ret[p].val

(***************************************************************************)
(* SiliconFlowPriceUpdater (price_updater.py).  Names and table titles are *)
(* sequences of one-character ASCII strings; a price is the number that    *)
(* _parse_price read from its cell.                                        *)
(***************************************************************************)
\* what requests.get / raise_for_status raise (lines 30-36)
RequestException == [tag |-> "RequestException"]
\* anything BeautifulSoup or the parsing raise (lines 55-58)
Exception == [tag |-> "Exception"]

\* the pricing page as scrape_prices meets it: the title of its table and
\* the data rows of the table
Page(title, rows) == [table_title |-> title, rows |-> rows]
Row(name, pin, pout) ==
    [model_name |-> name, input_price |-> pin, output_price |-> pout]

Name_Qwen2 == <<"Q", "w", "e", "n", "2", "-", "7", "B">>
Name_Qwen2_spaced == <<"Q", "w", "e", "n", "2", " ", "7", "B">>
Name_QwenQwen2 == <<"Q", "w", "e", "n", "/", "Q", "w", "e", "n", "2", "-", "7", "B">>
Name_bce == <<"b", "c", "e", "-", "e", "m", "b", "e", "d", "d", "i", "n", "g", "-", "b", "a", "s", "e", "_", "v", "1">>
Name_Model == <<"M", "o", "d", "e", "l">>
Title_paid == <<"C", "h", "a", "t", " ", "m", "o", "d", "e", "l", "s">>
Title_free == <<"F", "r", "e", "e", " ", "m", "o", "d", "e", "l", "s">>

\* the names the calculator is configured with: one with a slash, one with an
\* underscore, and the header word
NameInputs == {Name_QwenQwen2, Name_bce, Name_Model}

\* a request that fails, a page that cannot be parsed, pages whose rows give
\* no price, pages of one model, and a page that shows one model twice
PageInputs ==
    { RequestException, Exception,
      Page(Title_paid, <<>>),
      Page(Title_paid, <<Row(Name_Model, 0, 0)>>),
      Page(Title_paid, <<Row(Name_Qwen2, 1, 2)>>),
      Page(Title_paid, <<Row(Name_Qwen2, 4, 16)>>),
      Page(Title_free, <<Row(Name_QwenQwen2, 1, 2)>>),
      Page(Title_paid, <<Row(Name_Model, 0, 0), Row(Name_bce, 0, 0)>>),
      Page(Title_paid, <<Row(Name_Qwen2, 1, 2), Row(Name_Qwen2_spaced, 4, 16)>>) }

\* sub in s
contains(s, sub) ==
    \E i \in 1..(Len(s) - Len(sub) + 1) : SubSeq(s, i, i + Len(sub) - 1) = sub

\* s.lower()
lowered(s) == [i \in DOMAIN s |-> lower(s[i])]

\* the class [\w\u4e00-\u9fff] on ASCII text: letters, digits and the underscore
WordCharacters == AlphaNumeric \cup {"_"}

RECURSIVE collapse(_)
\* re.sub(r'-+', '-', s)
collapse(s) ==
    IF Len(s) < 2 THEN s
    ELSE IF s[1] = "-" /\ s[2] = "-" THEN collapse(Tail(s))
    ELSE <<Head(s)>> \o collapse(Tail(s))

\* variant: the underscore is replaced like any other separator
_normalize_model_name_alphanumeric(name) ==
    IF name = <<>> \/ join(lowered(name)) \in {"model", ""}
    THEN ""
    ELSE join(strip(collapse([i \in DOMAIN name |->
                                  IF lower(name[i]) \in AlphaNumeric
                                  THEN lower(name[i]) ELSE "-"])))

\* lines 402-411; the header word is not a model
_normalize_model_name(name) ==
    IF name = <<>> \/ join(lowered(name)) \in {"model", ""}
    THEN ""
    ELSE join(strip(collapse([i \in DOMAIN name |->
                                  IF lower(name[i]) \in WordCharacters
                                  THEN lower(name[i]) ELSE "-"])))

\* lines 455-467
_determine_category(table_title, model_name, input_price, output_price) ==
    IF \/ contains(lowered(table_title), <<"f", "r", "e", "e">>)
       \/ (input_price = 0 /\ output_price = 0)
    THEN "free"
    ELSE IF \/ contains(lowered(table_title), <<"f", "i", "n", "e", "t", "u", "n", "e">>)
            \/ contains(lowered(model_name), <<"f", "i", "n", "e", "-", "t", "u", "n", "e">>)
    THEN "fine_tune"
    ELSE IF input_price > 0 \/ output_price > 0 THEN "paid"
    ELSE "free"

\* lines 249-264
_determine_model_type(model_name) ==
    IF contains(model_name, <<"V", "L">>) THEN "Vision-Language"
    ELSE IF contains(model_name, <<"C", "o", "d", "e", "r">>) THEN "Code"
    ELSE IF contains(model_name, <<"T", "h", "i", "n", "k", "i", "n", "g">>) THEN "Thinking"
    ELSE IF contains(model_name, <<"O", "C", "R">>) THEN "OCR"
    ELSE IF contains(model_name, <<"C", "h", "a", "t">>) THEN "Chat"
    ELSE IF contains(model_name, <<"I", "n", "s", "t", "r", "u", "c", "t">>) THEN "Instruction"
    ELSE "Language"

\* line 118: model_name.split('/')[0] if '/' in model_name else ""
provider_of(model_name) ==
    IF contains(model_name, <<"/">>)
    THEN join(SubSeq(model_name, 1,
                     (CHOOSE i \in DOMAIN model_name :
                          /\ model_name[i] = "/"
                          /\ \A j \in 1..(i - 1) : model_name[j] # "/") - 1))
    ELSE ""

\* lines 122-133: the record built for one row
scraped_pricing(table_title, row) ==
    [model_key |-> _normalize_model_name(row.model_name),
     model_name |-> join(row.model_name),
     category |-> _determine_category(table_title, row.model_name,
                                      row.input_price, row.output_price),
     input_price_per_m |-> row.input_price,
     output_price_per_m |-> row.output_price,
     description |-> "",
     provider |-> provider_of(row.model_name),
     parameter_size |-> "",
     model_type |-> _determine_model_type(row.model_name)]

RECURSIVE parse_rows(_, _, _)
\* lines 92-131: prices[model_key] = ModelPricing(...) row by row.  The dict
\* is a sequence in insertion order; a key met again keeps its position.
parse_rows(table_title, rows, prices) ==
    IF rows = <<>> THEN prices
    ELSE LET pricing == scraped_pricing(table_title, Head(rows))
             put == IF \E i \in DOMAIN prices : prices[i].model_key = pricing.model_key
                    THEN [i \in DOMAIN prices |->
                             IF prices[i].model_key = pricing.model_key
                             THEN pricing ELSE prices[i]]
                    ELSE Append(prices, pricing)
         IN  parse_rows(table_title, Tail(rows),
                        IF pricing.model_key = "" THEN prices ELSE put)

_parse_pricing_page(page) == parse_rows(page.table_title, page.rows, <<>>)

\* scrape_prices: the empty dict after a failed request, a failed parse and a
\* parse without prices; the parsed prices otherwise
scrape_prices(page) ==
    IF page = RequestException THEN <<>>
    ELSE IF page = Exception THEN <<>>
    ELSE LET scraped_prices == _parse_pricing_page(page)
         IN  IF scraped_prices = <<>> THEN <<>> ELSE scraped_prices

\* database.py add_model_pricing on the two pricing tables db: the tables
\* after the call (a rejected record leaves them as they are)
add_model_pricing_tables(db, pricing) ==
    LET existing == fetchone({ r \in db.model_pricing : r.model_key = pricing.model_key })
    IN  IF pricing.category \notin Categories THEN db
        ELSE [model_pricing |->
                  { r \in db.model_pricing : r.model_key # pricing.model_key }
                  \cup {pricing},
              model_pricing_history |->
                  IF existing # None
                  THEN Append(db.model_pricing_history, existing)
                  ELSE db.model_pricing_history]

RECURSIVE save_current_prices(_, _)
\* lines 470-480: one add_model_pricing per entry, a failure is printed and
\* the loop goes on
save_current_prices(db, prices) ==
    IF prices = <<>> THEN db
    ELSE save_current_prices(add_model_pricing_tables(db, Head(prices)), Tail(prices))

\* update_prices returns nothing; the caller observes the count it prints
\* (line 494)
Updated(n) == [tag |-> "Updated", count |-> n]

\* variant: the stored catalogue is replaced by the scraped one
update_prices_replacing_catalogue(p, page) ==
    /\ pc[p] = "idle"
    /\ LET prices == scrape_prices(page)
           db == save_current_prices(
                     [model_pricing |-> {},
                      model_pricing_history |-> model_pricing_history], prices)
       IN  /\ Len(db.model_pricing_history) <= MaxHistory
           /\ model_pricing' = db.model_pricing
           /\ model_pricing_history' = db.model_pricing_history
           /\ registered(p, "update_prices", Updated(Len(prices)))
    /\ UNCHANGED <<hardware_configs, model_hardware_performance, sla_levels,
                   hardware_model_sla_capacity, pc, frame>>

\* lines 483-500: scrape, save, print; show_price_summary only reads
update_prices(p, page) ==
    /\ pc[p] = "idle"
    /\ LET prices == scrape_prices(page)
           db == save_current_prices(
                     [model_pricing |-> model_pricing,
                      model_pricing_history |-> model_pricing_history], prices)
       IN  /\ Len(db.model_pricing_history) <= MaxHistory
           /\ model_pricing' = db.model_pricing
           /\ model_pricing_history' = db.model_pricing_history
           /\ registered(p, "update_prices", Updated(Len(prices)))
    /\ UNCHANGED <<hardware_configs, model_hardware_performance, sla_levels,
                   hardware_model_sla_capacity, pc, frame>>

(***************************************************************************)
(* Updater specification: the updater fills the price tables, the          *)
(* calculator is given the names the page shows.                           *)
(***************************************************************************)
UpdateScrape == \E page \in PageInputs : update_prices(Caller, page)

UpdateConfigure ==
    \E name \in NameInputs :
        set_model_pricing(Caller, CalculatorPricing(name, RInt(1), RInt(2)))

UpdateNext == UpdateScrape \/ UpdateConfigure

SpecUpdate == Init /\ [][UpdateNext]_vars

\* the scrape of page ends in one of the three failures: the request raises,
\* the parse raises, or the parse gives no price
scrape_fails(page) ==
    \/ page = RequestException
    \/ page = Exception
    \/ _parse_pricing_page(page) = <<>>

FailingPages == { page \in PageInputs : scrape_fails(page) }

\* C29: when scrape_prices fails (request, parse, or no price parsed) it
\* returns the empty mapping, and update_prices then leaves model_pricing and
\* model_pricing_history as they were, so every stored price is read as before
C29_FailedScrapeWritesNothing ==
    [][ret'[Caller].op = "update_prices" =>
           \A page \in FailingPages :
               /\ scrape_prices(page) = <<>>
               /\ update_prices(Caller, page) =>
                      /\ ret'[Caller].val = Updated(0)
                      /\ model_pricing' = model_pricing
                      /\ model_pricing_history' = model_pricing_history]_vars

\* an update that stored nothing although prices and a superseded price are on record
C29_Witness ==
    /\ ret[Caller].op = "update_prices"
    /\ ret[Caller].val = Updated(0)
    /\ \E r \in model_pricing :
           r.model_key = "qwen2-7b" /\ r.input_price_per_m = 4
    /\ Len(model_pricing_history) = 1
    /\ model_pricing_history[1].input_price_per_m = 1

\* C30: the key the calculator derives from its model name is the key the
\* price updater computes for that name, and a price the updater stored under
\* that name is stored under the calculator's key
C30_CalculatorKeyIsUpdaterKey ==
    calculator.model_pricing # None =>
        LET name == calculator.model_pricing.model_name
            key == _get_model_key_from_pricing(calculator.model_pricing)
        IN  /\ key = _normalize_model_name(name)
            /\ \A r \in model_pricing : r.model_name = join(name) => r.model_key = key

====
